---- MODULE Spec2Model ----
(***************************************************************************)
(* A model of the retrieval-augmented context pipeline of atlasapi:        *)
(* query normalisation and cache keying (api/vector_search.py), the cache  *)
(* table operations (api/database.py), the retriever with its client-side  *)
(* fallback, the context assembler, the chat handler with its generation   *)
(* retry loop (api/app.py), the chunker (knowledge/processor.py) and the   *)
(* ingestion run: batched embedding and upload (knowledge/embeddings.py,   *)
(* knowledge/loader.py, load_knowledge_base.py).                           *)
(*                                                                         *)
(* Text is modelled as a sequence of one-character strings, so that the    *)
(* string operations of the source (lower, strip, replace, split, join)    *)
(* are computed character by character as Python computes them.           *)
(***************************************************************************)
EXTENDS Integers, Sequences, FiniteSets, TLC

\* ------------------------------------------------------------------------
\* Text primitives (Python str methods used by the source)
\* ------------------------------------------------------------------------

UpperToLower ==
    ("A" :> "a") @@ ("B" :> "b") @@ ("C" :> "c") @@ ("D" :> "d") @@ ("E" :> "e") @@
    ("F" :> "f") @@ ("G" :> "g") @@ ("H" :> "h") @@ ("I" :> "i") @@ ("J" :> "j") @@
    ("K" :> "k") @@ ("L" :> "l") @@ ("M" :> "m") @@ ("N" :> "n") @@ ("O" :> "o") @@
    ("P" :> "p") @@ ("Q" :> "q") @@ ("R" :> "r") @@ ("S" :> "s") @@ ("T" :> "t") @@
    ("U" :> "u") @@ ("V" :> "v") @@ ("W" :> "w") @@ ("X" :> "x") @@ ("Y" :> "y") @@
    ("Z" :> "z")

\* str.lower(), one character
lower_char(c) ==
    IF c \in DOMAIN UpperToLower THEN UpperToLower[c] ELSE c

\* str.upper(), one character (used only to render input variants)
upper_char(c) ==
    IF \E u \in DOMAIN UpperToLower : UpperToLower[u] = c
    THEN CHOOSE u \in DOMAIN UpperToLower : UpperToLower[u] = c
    ELSE c

\* str.lower()
lower(s) ==
    [i \in 1..Len(s) |-> lower_char(s[i])]

\* the characters str.strip() and str.split() treat as whitespace
is_space(c) ==
    c \in {" ", "\t", "\n"}

RECURSIVE lstrip(_)
lstrip(s) ==
    IF s # <<>> /\ is_space(Head(s)) THEN lstrip(Tail(s)) ELSE s

RECURSIVE rstrip(_)
rstrip(s) ==
    IF s # <<>> /\ is_space(s[Len(s)]) THEN rstrip(SubSeq(s, 1, Len(s) - 1)) ELSE s

\* str.strip()
strip(s) ==
    rstrip(lstrip(s))

\* str.replace(old, ""): leftmost, non-overlapping occurrences are removed
RECURSIVE replace_with_empty(_, _)
replace_with_empty(s, old) ==
    IF Len(s) < Len(old) THEN s
    ELSE IF SubSeq(s, 1, Len(old)) = old
         THEN replace_with_empty(SubSeq(s, Len(old) + 1, Len(s)), old)
         ELSE <<Head(s)>> \o replace_with_empty(Tail(s), old)

\* length of the leading run of non-whitespace characters
RECURSIVE word_len(_)
word_len(s) ==
    IF s = <<>> \/ is_space(Head(s)) THEN 0 ELSE 1 + word_len(Tail(s))

\* str.split(): the words between runs of whitespace
RECURSIVE split(_)
split(s) ==
    IF s = <<>> THEN <<>>
    ELSE IF is_space(Head(s)) THEN split(Tail(s))
    ELSE <<SubSeq(s, 1, word_len(s))>> \o split(SubSeq(s, word_len(s) + 1, Len(s)))

\* " ".join(words)
RECURSIVE join(_)
join(words) ==
    IF words = <<>> THEN <<>>
    ELSE IF Len(words) = 1 THEN words[1]
    ELSE words[1] \o <<" ">> \o join(Tail(words))

\* `sub in s` for strings
contains(s, sub) ==
    \E i \in 0..(Len(s) - Len(sub)) : SubSeq(s, i + 1, i + Len(sub)) = sub

\* hashlib.md5(text.encode()).hexdigest(): a digest, injective on the texts of
\* the model (collisions of MD5 are outside the model)
md5_hexdigest(text) ==
    <<"md5", text>>

\* ------------------------------------------------------------------------
\* Query normalisation and the cache key
\* ------------------------------------------------------------------------

greetings ==
    << <<"h", "e", "l", "l", "o">>,
       <<"h", "i">>,
       <<"h", "e", "y">>,
       <<"g", "o", "o", "d", " ", "m", "o", "r", "n", "i", "n", "g">>,
       <<"g", "o", "o", "d", " ", "a", "f", "t", "e", "r", "n", "o", "o", "n">>,
       <<"g", "o", "o", "d", " ", "e", "v", "e", "n", "i", "n", "g">>,
       <<"b", "o", "n", "j", "o", "u", "r">>,
       <<"s", "a", "l", "u", "t">>,
       <<"U+0645", "U+0631", "U+062D", "U+0628", "U+0627">>,
       <<"p", "l", "e", "a", "s", "e">>,
       <<"t", "h", "a", "n", "k", "s">>,
       <<"t", "h", "a", "n", "k", " ", "y", "o", "u">> >>

\* the loop `for greeting in greetings: query_lower = query_lower.replace(...)`
\* from greeting number i on
RECURSIVE remove_greetings(_, _)
remove_greetings(s, i) ==
    IF i > Len(greetings) THEN s
    ELSE remove_greetings(replace_with_empty(s, greetings[i]), i + 1)

normalize_query(query) ==
    join(split(remove_greetings(strip(lower(query)), 1)))

get_query_hash(query) ==
    md5_hexdigest(normalize_query(query))

\* ------------------------------------------------------------------------
\* Query complexity
\* ------------------------------------------------------------------------

simple_keywords ==
    { <<"w", "h", "a", "t", " ", "i", "s">>,
      <<"h", "o", "w", " ", "m", "u", "c", "h">>,
      <<"w", "h", "e", "n">>,
      <<"w", "h", "e", "r", "e">>,
      <<"w", "h", "o">>,
      <<"d", "e", "f", "i", "n", "e">>,
      <<"e", "x", "p", "l", "a", "i", "n">> }

complex_keywords ==
    { <<"c", "o", "m", "p", "a", "r", "e">>,
      <<"a", "n", "a", "l", "y", "z", "e">>,
      <<"d", "e", "s", "i", "g", "n">>,
      <<"a", "r", "c", "h", "i", "t", "e", "c", "t", "u", "r", "e">>,
      <<"i", "m", "p", "l", "e", "m", "e", "n", "t">>,
      <<"m", "i", "g", "r", "a", "t", "e">>,
      <<"o", "p", "t", "i", "m", "i", "z", "e">>,
      <<"t", "r", "o", "u", "b", "l", "e", "s", "h", "o", "o", "t">> }

SimpleTokenLimit == 100
ComplexTokenLimit == 300

\* a classifier that tests the complex rule before the simple one
classify_complex_first(query, token_count) ==
    IF (\E k \in complex_keywords : contains(lower(query), k))
       \/ token_count > ComplexTokenLimit
    THEN "complex"
    ELSE IF (\E k \in simple_keywords : contains(lower(query), k))
            /\ token_count < SimpleTokenLimit
         THEN "simple"
         ELSE "medium"

\* classify_query_complexity, with the tokenizer's count of the query passed in
\* (count_tokens is tiktoken's cl100k_base, external to the model)
classify_query_complexity(query, token_count) ==
    IF (\E k \in simple_keywords : contains(lower(query), k)) /\ token_count < SimpleTokenLimit
    THEN "simple"
    ELSE IF (\E k \in complex_keywords : contains(lower(query), k))
            \/ token_count > ComplexTokenLimit
         THEN "complex"
         ELSE "medium"

\* ------------------------------------------------------------------------
\* Bounds and inputs of the chat / cache model
\* ------------------------------------------------------------------------

MaxTime == 48       \* the clock stops advancing here (hours)
MaxRequests == 3    \* chat requests started in one behaviour

CACHE_EXPIRY_HOURS == 24

\* the clock advances in steps of one cache lifetime
TickHours == CACHE_EXPIRY_HOURS

\* The clients of the API.  Each user has at most one chat request in flight;
\* requests of different users run concurrently.
Users == {"A", "B"}
None == "None"

\* A chat message: its text and the token count the tokenizer reports for it.
Messages ==
    { [text |-> <<"H", "e", "l", "l", "o", " ", "w", "h", "a", "t", " ", "i", "s", " ", "x">>,
       tokens |-> 5],
      [text |-> <<"w", "h", "a", "t", " ", "i", "s", " ", "x">>,
       tokens |-> 4],
      [text |-> <<"c", "o", "m", "p", "a", "r", "e", " ", "x">>,
       tokens |-> 3] }

VARIABLES
    cache,      \* rows of table atlas_insights_cache
    now,        \* datetime.utcnow(), in hours
    req,        \* the chat request each process is serving, and where it is
    started     \* number of chat requests started so far

cacheVars == <<cache, now, req, started>>

VARIABLES
    nbody,      \* the words two raw queries have in common
    nq,         \* how each of the two raw queries is written
    nkey        \* the cache key computed for each of them, <<>> before that

normVars == <<nbody, nq, nkey>>

PlainWriting == [prefix |-> <<>>, upper |-> FALSE, wide |-> 0]

NormIdle ==
    /\ nbody = <<>>
    /\ nq = [i \in {1, 2} |-> PlainWriting]
    /\ nkey = [i \in {1, 2} |-> <<>>]

VARIABLES
    knowledge,  \* rows of table atlas_core_knowledge, in the store's return order
    search      \* the search_knowledge call in progress

searchVars == <<knowledge, search>>

NoSearch ==
    [pc |-> "idle", query_embedding |-> <<>>, top_k |-> 0, similarity_threshold |-> 0,
     primary |-> None, fallback |-> None, outcome |-> None, result |-> <<>>]

SearchIdle ==
    /\ knowledge = <<>>
    /\ search = NoSearch

VARIABLES
    stored,     \* what the stores hold for the user of a build_context call
    build       \* the build_context call in progress

buildVars == <<stored, build>>

NoBuild ==
    [pc |-> "idle", query_embedding |-> <<>>, knowledge_chunks |-> <<>>,
     conversation_history |-> <<>>, user_memory |-> <<>>, failed |-> {},
     outcome |-> None, bundle |-> <<>>]

BuildIdle ==
    /\ stored = [chunks |-> 0, turns |-> 0, facts |-> 0, cost |-> 0]
    /\ build = NoBuild

VARIABLES
    cq,         \* the query handed to classify_query_complexity, as it is written
    tier        \* the complexity level returned for it, None before the call

classVars == <<cq, tier>>

NoQuery == [pc |-> "writing", phrases |-> <<>>, upper |-> FALSE, filler |-> 0]

ClassIdle ==
    /\ cq = NoQuery
    /\ tier = None

VARIABLES
    doc,        \* the markdown file handed to process_markdown_file
    seg         \* the process_markdown_file call in progress

chunkVars == <<doc, seg>>

NoDocument == [kind |-> "empty", sections |-> <<>>, sep |-> 0, sentence |-> 0]

NoSegmenting ==
    [pc |-> "idle", sections |-> <<>>, next |-> 1, all_chunks |-> <<>>, outcome |-> None]

ChunkIdle ==
    /\ doc = NoDocument
    /\ seg = NoSegmenting

VARIABLES
    kb,         \* rows of table atlas_core_knowledge as the loader writes them
    run         \* the ingestion runs (load_knowledge_base.py main), one per process

ingestVars == <<kb, run>>

\* the ingestion runs that may execute in parallel
Runs == {"r1", "r2"}

\* a run that was not launched
NoRun ==
    [pc |-> "off", chunks |-> <<>>, batch_size |-> 1, i |-> 0, all_embeddings |-> <<>>,
     calls |-> 0, outstanding |-> 0, sleeps |-> 0, embedded |-> FALSE, embeddings |-> <<>>,
     j |-> 0, k |-> 0, successful |-> 0, failed |-> 0, report |-> <<>>]

IngestIdle ==
    /\ kb = <<>>
    /\ run = [r \in Runs |-> NoRun]

VARIABLES
    ov          \* one call of _get_overlap: its text, the setting, the excerpt

overlapVars == <<ov>>

NoOverlap == [pc |-> "idle", text |-> <<>>, overlap_tokens |-> 0, excerpt |-> <<>>]

OverlapIdle ==
    /\ ov = NoOverlap

VARIABLES
    gen         \* the generation step of one chat request: the Claude retry loop

genVars == <<gen>>

NoGeneration ==
    [pc |-> "idle", configured |-> FALSE, complexity |-> None, attempt |-> 0,
     retry_delay |-> 1, claude |-> <<>>, slept |-> <<>>, openai_calls |-> 0,
     response_text |-> <<>>, model_used |-> None, raised |-> FALSE]

GenIdle ==
    /\ gen = NoGeneration

\* what the chat / cache model leaves alone
outsideCache == <<normVars, searchVars, buildVars, classVars, chunkVars, ingestVars, overlapVars, genVars>>

\* what the normalisation model leaves alone
outsideNorm == <<cacheVars, searchVars, buildVars, classVars, chunkVars, ingestVars, overlapVars, genVars>>

\* what the retriever model leaves alone
outsideSearch == <<cacheVars, normVars, buildVars, classVars, chunkVars, ingestVars, overlapVars, genVars>>

\* what the context assembler model leaves alone
outsideBuild == <<cacheVars, normVars, searchVars, classVars, chunkVars, ingestVars, overlapVars, genVars>>

\* what the classifier model leaves alone
outsideClass == <<cacheVars, normVars, searchVars, buildVars, chunkVars, ingestVars, overlapVars, genVars>>

\* what the chunker model leaves alone
outsideChunk == <<cacheVars, normVars, searchVars, buildVars, classVars, ingestVars, overlapVars, genVars>>

\* what the ingestion model leaves alone
outsideIngest == <<cacheVars, normVars, searchVars, buildVars, classVars, chunkVars, overlapVars, genVars>>

\* what the overlap model leaves alone
outsideOverlap == <<cacheVars, normVars, searchVars, buildVars, classVars, chunkVars, ingestVars, genVars>>

\* what the generation model leaves alone
outsideGen == <<cacheVars, normVars, searchVars, buildVars, classVars, chunkVars, ingestVars, overlapVars>>

\* NULL of a timestamp column
NoTime == 0 - 1

NoMessage == [text |-> <<>>, tokens |-> 0]

\* `cached` is the set of rows the select returned to the request (at most its
\* first row is used); `response` is <<>> until one is produced.
IdleRequest ==
    [pc |-> "idle", message |-> NoMessage,
     cached |-> {}, lookup |-> None, has_embedding |-> FALSE, complexity |-> None,
     response |-> <<>>, from_cache |-> FALSE, steps |-> {}]

CacheInit ==
    /\ cache = {}
    /\ now = 0
    /\ req = [u \in Users |-> IdleRequest]
    /\ started = 0

\* ------------------------------------------------------------------------
\* Cache table operations (AtlasDatabase)
\* ------------------------------------------------------------------------

\* a select that compares with >= instead of .gt: returns an entry at the very
\* instant it expires
cache_select_inclusive(rows, query_hash, at) ==
    {r \in rows : r.query_hash = query_hash /\ r.expires_at >= at}

\* the select of get_cached_response:
\* .eq("query_hash", query_hash).gt("expires_at", utcnow)
cache_select(rows, query_hash, at) ==
    {r \in rows : r.query_hash = query_hash /\ r.expires_at > at}

\* an update that has lost its .eq("query_hash", ...) filter: bumps every row
cache_bump_hit_unfiltered(rows, query_hash, read_hit_count, at) ==
    {[r EXCEPT !.hit_count = read_hit_count + 1, !.last_hit_at = at] : r \in rows}

\* the update of get_cached_response:
\* .update({hit_count: read + 1, last_hit_at: utcnow}).eq("query_hash", query_hash)
cache_bump_hit(rows, query_hash, read_hit_count, at) ==
    { IF r.query_hash = query_hash
      THEN [r EXCEPT !.hit_count = read_hit_count + 1, !.last_hit_at = at]
      ELSE r : r \in rows }

\* the key save_cached_response computes for the row it writes
save_query_hash(query_text) ==
    md5_hexdigest(lower(query_text))

\* the upsert of save_cached_response, on_conflict="query_hash": the columns
\* of the payload are written, hit_count and last_hit_at are not in the payload
\* (a new row takes the column defaults, an existing row keeps what it has)
cache_upsert(rows, query_text, cached_response, at, expiry_hours) ==
    LET h == save_query_hash(query_text)
        old == {r \in rows : r.query_hash = h}
        payload == [query_hash |-> h, query_text |-> query_text,
                    cached_response |-> cached_response,
                    expires_at |-> at + expiry_hours]
        row == IF old = {}
               THEN payload @@ [hit_count |-> 0, last_hit_at |-> NoTime]
               ELSE LET o == CHOOSE r \in old : TRUE
                    IN payload @@ [hit_count |-> o.hit_count, last_hit_at |-> o.last_hit_at]
    IN (rows \ old) \cup {row}

\* a delete that compares with <= instead of .lt: sweeps an entry at the very
\* instant it expires
cache_delete_expired_inclusive(rows, at) ==
    {r \in rows : ~(r.expires_at <= at)}

\* the delete of cleanup_expired_cache: .lt("expires_at", utcnow)
cache_delete_expired(rows, at) ==
    {r \in rows : ~(r.expires_at < at)}

\* ------------------------------------------------------------------------
\* The chat handler (POST /chat), one action per step that touches the store
\* or an external service.  Every store call may raise; the handlers catch it
\* as the source does.
\* ------------------------------------------------------------------------

\* a request of user p arrives
ChatStart(p, m) ==
    /\ req[p].pc = "idle"
    /\ started < MaxRequests
    /\ started' = started + 1
    /\ req' = [req EXCEPT ![p] = [IdleRequest EXCEPT !.pc = "check_cache",
                                                     !.message = m]]
    /\ UNCHANGED <<cache, now, outsideCache>>

\* a lookup that returns an entry only to the user it was generated for
CacheReadOwnEntries(p, db_fails) ==
    LET r == req[p]
        found == {e \in cache_select(cache, get_query_hash(r.message.text), now) :
                     e.cached_response[3] = p}
    IN /\ r.pc = "check_cache"
       /\ IF db_fails
          THEN req' = [req EXCEPT ![p] = [r EXCEPT !.pc = "build_context",
                                                   !.lookup = "error",
                                                   !.steps = @ \cup {"lookup"}]]
          ELSE IF found # {}
          THEN req' = [req EXCEPT ![p] = [r EXCEPT !.pc = "cache_update",
                                                   !.cached = {CHOOSE e \in found : TRUE},
                                                   !.steps = @ \cup {"lookup"}]]
          ELSE req' = [req EXCEPT ![p] = [r EXCEPT !.pc = "build_context",
                                                   !.lookup = "miss",
                                                   !.steps = @ \cup {"lookup"}]]
       /\ UNCHANGED <<cache, now, started, outsideCache>>

\* check_cache / get_cached_response, the select
CacheRead(p, db_fails) ==
    LET r == req[p]
        found == cache_select(cache, get_query_hash(r.message.text), now)
    IN /\ r.pc = "check_cache"
       /\ IF db_fails
          THEN req' = [req EXCEPT ![p] = [r EXCEPT !.pc = "build_context",
                                                   !.lookup = "error",
                                                   !.steps = @ \cup {"lookup"}]]
          ELSE IF found # {}
          THEN req' = [req EXCEPT ![p] = [r EXCEPT !.pc = "cache_update",
                                                   !.cached = {CHOOSE e \in found : TRUE},
                                                   !.steps = @ \cup {"lookup"}]]
          ELSE req' = [req EXCEPT ![p] = [r EXCEPT !.pc = "build_context",
                                                   !.lookup = "miss",
                                                   !.steps = @ \cup {"lookup"}]]
       /\ UNCHANGED <<cache, now, started, outsideCache>>

\* an update that writes the hit count back as it was read
CacheBumpHitKeepsCount(p, db_fails) ==
    LET r == req[p]
        entry == CHOOSE e \in r.cached : TRUE
    IN /\ r.pc = "cache_update"
       /\ IF db_fails
          THEN /\ req' = [req EXCEPT ![p] = [r EXCEPT !.pc = "build_context",
                                                      !.cached = {},
                                                      !.lookup = "error"]]
               /\ UNCHANGED cache
          ELSE /\ cache' = cache_bump_hit(cache, entry.query_hash, entry.hit_count - 1, now)
               /\ req' = [req EXCEPT ![p] = [r EXCEPT !.pc = "return_cached",
                                                      !.lookup = "hit"]]
       /\ UNCHANGED <<now, started, outsideCache>>

\* get_cached_response, the hit-count update; when it raises the lookup
\* returns None and the request goes on as after a miss
CacheBumpHit(p, db_fails) ==
    LET r == req[p]
        entry == CHOOSE e \in r.cached : TRUE
    IN /\ r.pc = "cache_update"
       /\ IF db_fails
          THEN /\ req' = [req EXCEPT ![p] = [r EXCEPT !.pc = "build_context",
                                                      !.cached = {},
                                                      !.lookup = "error"]]
               /\ UNCHANGED cache
          ELSE /\ cache' = cache_bump_hit(cache, entry.query_hash, entry.hit_count, now)
               /\ req' = [req EXCEPT ![p] = [r EXCEPT !.pc = "return_cached",
                                                      !.lookup = "hit"]]
       /\ UNCHANGED <<now, started, outsideCache>>

\* a hit branch that has lost its `return`: the request goes on to build the
\* context and generate
ReturnCachedFallsThrough(p) ==
    /\ req[p].pc = "return_cached"
    /\ req' = [req EXCEPT ![p] = [req[p] EXCEPT !.pc = "build_context"]]
    /\ UNCHANGED <<cache, now, started, outsideCache>>

\* chat, the branch `if cached_response:`
ReturnCached(p) ==
    LET r == req[p]
        entry == CHOOSE e \in r.cached : TRUE
    IN /\ r.pc = "return_cached"
       /\ req' = [req EXCEPT ![p] = [r EXCEPT !.pc = "done",
                                              !.response = entry.cached_response,
                                              !.from_cache = TRUE]]
       /\ UNCHANGED <<cache, now, started, outsideCache>>

\* chat, build_context: the bundle holds query_embedding unless the build
\* failed and returned the minimal bundle
BuildContext(p, embed_ok) ==
    LET r == req[p]
    IN /\ r.pc = "build_context"
       /\ req' = [req EXCEPT ![p] = [r EXCEPT
                    !.pc = "generate",
                    !.has_embedding = embed_ok,
                    !.complexity = classify_query_complexity(r.message.text,
                                                             r.message.tokens),
                    !.steps = @ \cup (IF embed_ok
                                      THEN {"embed", "retrieve", "assemble"}
                                      ELSE {"embed", "assemble"})]]
       /\ UNCHANGED <<cache, now, started, outsideCache>>

\* chat, the call of the chat model; an exception ends the request with HTTP 500
Generate(p, ok) ==
    LET r == req[p]
    IN /\ r.pc = "generate"
       /\ IF ok
          THEN req' = [req EXCEPT ![p] = [r EXCEPT !.pc = "save_conversation",
                                                   !.response = <<"answer", r.message.text, p>>,
                                                   !.steps = @ \cup {"generate"}]]
          ELSE req' = [req EXCEPT ![p] = [r EXCEPT !.pc = "error",
                                                   !.steps = @ \cup {"generate"}]]
       /\ UNCHANGED <<cache, now, started, outsideCache>>

\* chat, db.save_conversation(..., context["query_embedding"], ...): the
\* subscript raises KeyError on the minimal bundle
SaveConversation(p) ==
    LET r == req[p]
    IN /\ r.pc = "save_conversation"
       /\ IF r.has_embedding
          THEN req' = [req EXCEPT ![p] = [r EXCEPT !.pc = "cache_store",
                                                   !.steps = @ \cup {"save_conversation"}]]
          ELSE req' = [req EXCEPT ![p] = [r EXCEPT !.pc = "error"]]
       /\ UNCHANGED <<cache, now, started, outsideCache>>

\* a condition that lets every tier but complex through
should_cache_unless_complex(complexity) == complexity # "complex"

\* chat, the condition of the cache store: `if complexity == "simple":`
should_cache(complexity) == complexity = "simple"

\* a cache store whose failure is not caught: the request ends with HTTP 500
CacheStoreRaises(p, db_fails) ==
    LET r == req[p]
    IN /\ r.pc = "cache_store"
       /\ IF r.complexity = "simple"
          THEN /\ cache' = IF db_fails THEN cache
                           ELSE cache_upsert(cache, r.message.text, r.response, now,
                                             CACHE_EXPIRY_HOURS)
               /\ req' = [req EXCEPT ![p] = [r EXCEPT
                            !.pc = IF db_fails THEN "error" ELSE "done",
                            !.response = IF db_fails THEN <<>> ELSE @,
                            !.steps = @ \cup {"cache_store"}]]
          ELSE /\ req' = [req EXCEPT ![p] = [r EXCEPT !.pc = "done"]]
               /\ UNCHANGED cache
       /\ UNCHANGED <<now, started, outsideCache>>

\* chat, `if complexity == "simple": db.save_cached_response(...)`, then the
\* response is returned; save_cached_response catches the store's error and
\* returns False ("cache_store_false"), which chat does not look at
CacheStore(p, db_fails) ==
    LET r == req[p]
    IN /\ r.pc = "cache_store"
       /\ IF should_cache(r.complexity)
          THEN /\ cache' = IF db_fails THEN cache
                           ELSE cache_upsert(cache, r.message.text, r.response, now,
                                             CACHE_EXPIRY_HOURS)
               /\ req' = [req EXCEPT ![p] = [r EXCEPT
                            !.pc = "done",
                            !.steps = @ \cup (IF db_fails
                                              THEN {"cache_store", "cache_store_false"}
                                              ELSE {"cache_store"})]]
          ELSE /\ req' = [req EXCEPT ![p] = [r EXCEPT !.pc = "done"]]
               /\ UNCHANGED cache
       /\ UNCHANGED <<now, started, outsideCache>>

\* the response (or the HTTP 500) has been sent; the worker is free again
ChatEnd(p) ==
    /\ req[p].pc \in {"done", "error"}
    /\ req' = [req EXCEPT ![p] = IdleRequest]
    /\ UNCHANGED <<cache, now, started, outsideCache>>

\* POST /admin/cleanup-cache -> cleanup_expired_cache
CleanupExpiredCache ==
    /\ cache' = cache_delete_expired(cache, now)
    /\ cache' # cache
    /\ UNCHANGED <<now, req, started, outsideCache>>

\* time passes
Tick ==
    /\ now + TickHours <= MaxTime
    /\ now' = now + TickHours
    /\ UNCHANGED <<cache, req, started, outsideCache>>

Next ==
    \/ \E p \in Users, m \in Messages : ChatStart(p, m)
    \/ \E p \in Users, f \in BOOLEAN : CacheRead(p, f)
    \/ \E p \in Users, f \in BOOLEAN : CacheBumpHit(p, f)
    \/ \E p \in Users : ReturnCached(p)
    \/ \E p \in Users, ok \in BOOLEAN : BuildContext(p, ok)
    \/ \E p \in Users, ok \in BOOLEAN : Generate(p, ok)
    \/ \E p \in Users : SaveConversation(p)
    \/ \E p \in Users, f \in BOOLEAN : CacheStore(p, f)
    \/ \E p \in Users : ChatEnd(p)
    \/ CleanupExpiredCache
    \/ Tick

vars == <<cacheVars, normVars, searchVars, buildVars, classVars, chunkVars, ingestVars, overlapVars, genVars>>

CacheIdle ==
    /\ cache = {}
    /\ now = 0
    /\ req = [u \in Users |-> IdleRequest]
    /\ started = 0

Init == CacheInit /\ NormIdle /\ SearchIdle /\ BuildIdle /\ ClassIdle /\ ChunkIdle /\ IngestIdle /\ OverlapIdle /\ GenIdle

Spec == Init /\ [][Next]_vars

\* ------------------------------------------------------------------------
\* Properties of the chat / cache model
\* ------------------------------------------------------------------------

\* the key check_cache looks a request's message up under
LookupKey(p) == get_query_hash(req[p].message.text)

\* process p takes the select step of its lookup in this transition
SelectStep(p) == req[p].pc = "check_cache" /\ req'[p].pc # "check_cache"

\* process p takes the update step of its lookup in this transition
UpdateStep(p) == req[p].pc = "cache_update" /\ req'[p].pc # "cache_update"

SameNormalization(q1, q2) == normalize_query(q1) = normalize_query(q2)

\* C1: store and lookup key an entry by the same digest of the normalized
\* query: a lookup whose select succeeds reports a miss only when the store
\* holds no unexpired entry written for a query with the same normalization,
\* and the store never holds two entries for queries with the same
\* normalization.
C1_StoreAndLookupShareKey ==
    [][ /\ \A p \in Users :
             (SelectStep(p) /\ req'[p].lookup = "miss")
             => ~ \E r \in cache : /\ r.expires_at > now
                                   /\ SameNormalization(r.query_text, req[p].message.text)
        /\ \A r1, r2 \in cache' :
             SameNormalization(r1.query_text, r2.query_text) => r1 = r2 ]_vars

\* C7: the select of a lookup returns an entry only if that entry is in the
\* store with expires_at strictly later than the time of the lookup, and when
\* every entry under the key has expires_at <= now the lookup is a miss, even
\* though the entry is still in the store.
C7_HitOnlyUnexpired ==
    [][ \A p \in Users : SelectStep(p) =>
          /\ \A e \in req'[p].cached : e \in cache /\ e.expires_at > now
          /\ (\A r \in cache : r.query_hash = LookupKey(p) => r.expires_at <= now)
             => (req'[p].cached = {} /\ req'[p].pc = "build_context") ]_vars

\* a lookup has returned an entry while another entry has expired and has not
\* been swept
C7_Witness ==
    \E p \in Users :
        /\ req[p].pc = "done" /\ req[p].from_cache
        /\ \E e \in req[p].cached : e.expires_at > now
        /\ \E r \in cache : r.expires_at <= now

\* C8: the update step of a hit writes hit_count = (the value read) + 1 and
\* last_hit_at = now into the entry under the looked-up key, keeps its other
\* fields, and keeps every other entry as it is; a lookup that ends as a miss
\* (nothing found, or the store raised) leaves the store unchanged.
C8_HitBumpsOnlyItsEntry ==
    [][ \A p \in Users :
          /\ (UpdateStep(p) /\ req'[p].lookup = "hit") =>
               LET e == CHOOSE x \in req[p].cached : TRUE
               IN /\ Cardinality(cache') = Cardinality(cache)
                  /\ \A r \in cache : r.query_hash # e.query_hash => r \in cache'
                  /\ \A r \in cache : r.query_hash = e.query_hash =>
                       \E n \in cache' :
                           /\ n.query_hash = r.query_hash
                           /\ n.query_text = r.query_text
                           /\ n.cached_response = r.cached_response
                           /\ n.expires_at = r.expires_at
                           /\ n.hit_count = e.hit_count + 1
                           /\ n.last_hit_at = now
          /\ ((SelectStep(p) \/ UpdateStep(p)) /\ req'[p].lookup \in {"miss", "error"})
               => cache' = cache ]_vars

\* a hit has bumped its entry while a second entry is in the store, untouched
C8_Witness ==
    \E p \in Users :
        /\ req[p].lookup = "hit"
        /\ \E r1, r2 \in cache :
              /\ r1.query_hash = LookupKey(p) /\ r1.hit_count = 1 /\ r1.last_hit_at = now
              /\ r2.query_hash # r1.query_hash /\ r2.hit_count = 0 /\ r2.last_hit_at = NoTime

\* C9: a request performs the cache lookup before anything of context
\* assembly, and a request whose lookup hit has performed no query embedding,
\* retrieval, context assembly, generation, conversation save or cache store,
\* and ends with the cached response and from_cache = TRUE.
C9_HitShortCircuits ==
    \A p \in Users :
        /\ req[p].steps # {} => "lookup" \in req[p].steps
        /\ req[p].lookup = "hit" =>
             /\ req[p].steps = {"lookup"}
             /\ req[p].pc \in {"return_cached", "done"}
             /\ req[p].pc = "done" =>
                  /\ req[p].from_cache
                  /\ \E e \in req[p].cached : req[p].response = e.cached_response

\* a request has been answered from the cache
C9_Witness ==
    \E p \in Users :
        /\ req[p].pc = "done" /\ req[p].lookup = "hit" /\ req[p].from_cache
        /\ req[p].response # <<>>

\* process p takes the cache store step of its request in this transition
StoreStep(p) == req[p].pc = "cache_store" /\ req'[p].pc # "cache_store"

\* C24: a failure of the cache store is not surfaced: a lookup whose select
\* or whose hit-count update raises is reported as a miss (no entry, the
\* request goes on to build the context and generate, as after a miss), a
\* store that fails returns False and the request ends with the generated
\* response, and a request ends in an error only out of generation or the
\* conversation save.
C24_CacheFailureNotSurfaced ==
    [][ \A p \in Users :
          /\ ((SelectStep(p) \/ UpdateStep(p)) /\ req'[p].lookup = "error") =>
                /\ req'[p].pc = "build_context"
                /\ req'[p].cached = {}
                /\ req'[p].response = <<>> /\ ~req'[p].from_cache
                /\ cache' = cache
          /\ (StoreStep(p) /\ cache' = cache /\ req[p].complexity = "simple"
                /\ cache_upsert(cache, req[p].message.text, req[p].response, now, CACHE_EXPIRY_HOURS) # cache) =>
                /\ "cache_store_false" \in req'[p].steps
          /\ (StoreStep(p) /\ "cache_store_false" \in req'[p].steps) =>
                /\ req'[p].pc = "done"
                /\ req'[p].response = req[p].response /\ req'[p].response # <<>>
                /\ ~req'[p].from_cache
                /\ cache' = cache
          /\ (req'[p].pc = "error" /\ req[p].pc # "error") =>
                req[p].pc \in {"generate", "save_conversation"} ]_vars

\* a request whose lookup failed and whose cache store failed has ended with
\* the generated response
C24_Witness ==
    \E p \in Users :
        /\ req[p].pc = "done"
        /\ req[p].lookup = "error"
        /\ "cache_store_false" \in req[p].steps
        /\ req[p].response = <<"answer", req[p].message.text, p>>

\* C28: what a lookup finds is fixed by the query text, the time and the
\* rows of the store, whoever asks: when an unexpired row is stored under the
\* key of the query the lookup takes one, for every user, and the request
\* answered from the cache returns that row's response as it was stored,
\* also when it was generated for another user.
C28_LookupIgnoresUser ==
    [][ \A p \in Users :
          /\ (SelectStep(p) /\ req'[p].lookup # "error") =>
                LET found == cache_select(cache, get_query_hash(req[p].message.text), now)
                IN /\ found = {} => (req'[p].cached = {} /\ req'[p].lookup = "miss")
                   /\ found # {} => /\ req'[p].cached # {}
                                     /\ req'[p].cached \subseteq found
                                     /\ req'[p].pc = "cache_update"
          /\ (req[p].pc = "return_cached" /\ req'[p].pc = "done") =>
                /\ req'[p].from_cache
                /\ \E e \in req[p].cached : req'[p].response = e.cached_response ]_vars

\* user B has been answered with the response generated for user A
C28_Witness ==
    /\ req["B"].pc = "done" /\ req["B"].from_cache
    /\ req["B"].response = <<"answer", req["B"].response[2], "A">>
    /\ get_query_hash(req["B"].message.text) = save_query_hash(req["B"].response[2])

\* the expiry sweep deletes rows in this transition (no other step changes
\* the store and leaves every request where it is)
SweepStep == cache' # cache /\ req' = req

\* C29: the expiry sweep deletes exactly the rows with expires_at earlier
\* than the time of the sweep, none of which a lookup at that time would
\* return, and a row with expires_at equal to the current time is neither
\* returned by a lookup nor deleted by the sweep.
C29_SweepDeletesOnlyExpired ==
    [][ /\ SweepStep =>
             /\ cache' = {r \in cache : ~(r.expires_at < now)}
             /\ \A r \in cache \ cache' : r \notin cache_select(cache, r.query_hash, now)
             /\ \A r \in cache : r.expires_at = now => r \in cache'
        /\ \A p \in Users : SelectStep(p) =>
             \A e \in req'[p].cached : e.expires_at # now ]_vars

\* a row that expires at this instant is in the store after a sweep has
\* deleted the expired row one request had read, and the later lookup of
\* another request under that row's key was a miss
C29_Witness ==
    /\ \E r \in cache : r.expires_at = now
    /\ \A r \in cache : r.expires_at >= now
    /\ \E p, q \in Users :
          /\ req[p].lookup = "hit"
          /\ \E e \in req[p].cached :
                /\ e.expires_at < now
                /\ \A r \in cache : r.query_hash # e.query_hash
                /\ get_query_hash(req[q].message.text) = e.query_hash
          /\ req[q].lookup = "miss"

\* ------------------------------------------------------------------------
\* The chat path with a query of every tier: no time passes and nothing is
\* swept, each request looks the cache up, generates and stores.
\* ------------------------------------------------------------------------

\* the messages of the chat model and one that has no keyword (tier medium)
TierMessages ==
    Messages \cup { [text |-> <<"x">>, tokens |-> 1] }

NextStore ==
    \/ \E p \in Users, m \in TierMessages : ChatStart(p, m)
    \/ \E p \in Users, f \in BOOLEAN : CacheRead(p, f)
    \/ \E p \in Users, f \in BOOLEAN : CacheBumpHit(p, f)
    \/ \E p \in Users : ReturnCached(p)
    \/ \E p \in Users, ok \in BOOLEAN : BuildContext(p, ok)
    \/ \E p \in Users, ok \in BOOLEAN : Generate(p, ok)
    \/ \E p \in Users : SaveConversation(p)
    \/ \E p \in Users, f \in BOOLEAN : CacheStore(p, f)
    \/ \E p \in Users : ChatEnd(p)

InitStore == CacheInit /\ NormIdle /\ SearchIdle /\ BuildIdle /\ ClassIdle /\ ChunkIdle /\ IngestIdle /\ OverlapIdle /\ GenIdle

SpecStore == InitStore /\ [][NextStore]_vars

\* the tier of the message a row was stored for
TierOf(query_text) ==
    LET m == CHOOSE x \in TierMessages : x.text = query_text
    IN classify_query_complexity(m.text, m.tokens)

\* C25: chat writes a generated response to the cache only for a query
\* classified simple: the store step of a request changes the cache only if
\* the tier is simple, no row of the cache belongs to a query classified
\* complex (or medium), and the store operation itself writes a row for a
\* query of any tier.
C25_OnlySimpleIsCached ==
    /\ \A r \in cache : TierOf(r.query_text) = "simple" /\ TierOf(r.query_text) # "complex"
    /\ \A p \in Users : "cache_store" \in req[p].steps => req[p].complexity = "simple"
    /\ \A p \in Users : (req[p].pc = "done" /\ ~req[p].from_cache /\ req[p].complexity = "simple")
                             => "cache_store" \in req[p].steps
    /\ \A m \in TierMessages :
           \E r \in cache_upsert(cache, m.text, <<"answer", m.text, "A">>, now, CACHE_EXPIRY_HOURS) :
               r.query_text = m.text

\* a simple query's response is in the cache while the requests for a complex
\* and for a medium query have ended with a generated response
C25_Witness ==
    /\ \E r \in cache : TierOf(r.query_text) = "simple"
    /\ \E p, q \in Users :
          /\ req[p].pc = "done" /\ req[p].complexity = "complex" /\ req[p].response # <<>>
          /\ req[q].pc = "done" /\ req[q].complexity = "medium" /\ req[q].response # <<>>

\* ------------------------------------------------------------------------
\* Concurrent lookups: the store holds one entry that has been hit h times,
\* and every user sends one request; the select and the update of each lookup
\* are separate calls to the store and interleave with those of the other
\* lookups and with the clock.
\* ------------------------------------------------------------------------

MaxHits == 2        \* the entry has been hit at most this often before

\* the store after one response was cached at time 0 and hit h times
LookupInit ==
    /\ \E m \in Messages, h \in 0..MaxHits :
          cache = { [r EXCEPT !.hit_count = h,
                              !.last_hit_at = IF h = 0 THEN NoTime ELSE 0]
                    : r \in cache_upsert({}, m.text, <<"answer", m.text, "A">>,
                                         0, CACHE_EXPIRY_HOURS) }
    /\ now = 0
    /\ req = [u \in Users |-> IdleRequest]
    /\ started = 0

NextLookup ==
    \/ \E p \in Users, m \in Messages : ChatStart(p, m)
    \/ \E p \in Users, f \in BOOLEAN : CacheRead(p, f)
    \/ \E p \in Users, f \in BOOLEAN : CacheBumpHit(p, f)
    \/ \E p \in Users : ReturnCached(p)
    \/ Tick

InitLookup == LookupInit /\ NormIdle /\ SearchIdle /\ BuildIdle /\ ClassIdle /\ ChunkIdle /\ IngestIdle /\ OverlapIdle /\ GenIdle

SpecLookup == InitLookup /\ [][NextLookup]_vars

\* the entry the lookup of p read
ReadEntry(p) == CHOOSE e \in req[p].cached : TRUE

\* the lookups that have hit the entry under query_hash
HitsOn(query_hash) ==
    {p \in Users : req[p].lookup = "hit" /\ ReadEntry(p).query_hash = query_hash}

\* the hit count of the entry before the first of these lookups updated it:
\* the first lookup to update read the entry before any update
InitialHitCount(lookups) ==
    CHOOSE h \in {ReadEntry(p).hit_count : p \in lookups} :
        \A p \in lookups : h <= ReadEntry(p).hit_count

\* C21: of the concurrent lookups that hit one entry whose hit count was h,
\* each returns the entry (its response, from_cache), and once N of them have
\* made their update the entry's hit_count is at least h + 1 and at most
\* h + N.
C21_ConcurrentHitsCountBetween ==
    \A p \in Users : req[p].lookup = "hit" =>
        LET e == ReadEntry(p)
            G == HitsOn(e.query_hash)
            h == InitialHitCount(G)
        IN /\ req[p].pc \in {"return_cached", "done"}
           /\ req[p].pc = "done" =>
                 (req[p].from_cache /\ req[p].response = e.cached_response)
           /\ \A r \in cache : r.query_hash = e.query_hash =>
                 /\ r.hit_count >= h + 1
                 /\ r.hit_count <= h + Cardinality(G)

\* two lookups have hit the same entry and returned it, and its hit count has
\* gone up by one only: an increment is lost
C21_Witness ==
    \E p, q \in Users :
        /\ p # q
        /\ req[p].pc = "done" /\ req[p].lookup = "hit"
        /\ req[q].pc = "done" /\ req[q].lookup = "hit"
        /\ ReadEntry(p) = ReadEntry(q)
        /\ \E r \in cache : /\ r.query_hash = ReadEntry(p).query_hash
                            /\ r.hit_count = ReadEntry(p).hit_count + 1
                            /\ r.hit_count < ReadEntry(p).hit_count + Cardinality(Users)

\* ------------------------------------------------------------------------
\* The normalisation model: two raw queries with the same words, written with
\* different greeting prefixes, letter case and whitespace, and the cache key
\* get_query_hash computes for each.
\* ------------------------------------------------------------------------

MaxPrefix == 1      \* greetings in front of a query

\* the greetings (by their number in the list) the queries are prefixed with
GreetingInputs == {1, 2, 4, 11, 12}

Bodies ==
    { << <<"w", "h", "a", "t">>, <<"i", "s">>, <<"x">> >>,
      << <<"t", "h", "i", "s">>, <<"x">> >> }

RECURSIVE GreetingWords(_)
GreetingWords(prefix) ==
    IF prefix = <<>> THEN <<>>
    ELSE split(greetings[Head(prefix)]) \o GreetingWords(Tail(prefix))

\* the words of a raw query: those of its greeting prefix, then the body
WordsOf(body, w) ==
    GreetingWords(w.prefix) \o body

\* words from number i on, one space between two words and one more in front
\* of word number `wide` (after the last word when wide = Len(words) + 1)
RECURSIVE Spaced(_, _, _)
Spaced(words, i, wide) ==
    LET extra == IF wide = i THEN <<" ">> ELSE <<>>
    IN IF i > Len(words) THEN extra
       ELSE extra \o (IF i > 1 THEN <<" ">> ELSE <<>>) \o words[i]
            \o Spaced(words, i + 1, wide)

\* the raw query text
Written(body, w) ==
    LET text == Spaced(WordsOf(body, w), 1, w.wide)
    IN IF w.upper THEN [i \in 1..Len(text) |-> upper_char(text[i])] ELSE text

NormInit ==
    /\ nbody \in Bodies
    /\ nq = [i \in {1, 2} |-> PlainWriting]
    /\ nkey = [i \in {1, 2} |-> <<>>]

\* put a greeting in front of query i
AddGreeting(i, g) ==
    /\ Len(nq[i].prefix) < MaxPrefix
    /\ nq' = [nq EXCEPT ![i].prefix = <<g>> \o @]
    /\ nkey' = [nkey EXCEPT ![i] = <<>>]
    /\ UNCHANGED <<nbody, outsideNorm>>

\* write query i in upper case
UpperCase(i) ==
    /\ ~ nq[i].upper
    /\ nq' = [nq EXCEPT ![i].upper = TRUE]
    /\ nkey' = [nkey EXCEPT ![i] = <<>>]
    /\ UNCHANGED <<nbody, outsideNorm>>

\* one more space in front of word k of query i, or at its end
WidenGap(i, k) ==
    /\ nq[i].wide = 0
    /\ k \in 1..(Len(WordsOf(nbody, nq[i])) + 1)
    /\ nq' = [nq EXCEPT ![i].wide = k]
    /\ nkey' = [nkey EXCEPT ![i] = <<>>]
    /\ UNCHANGED <<nbody, outsideNorm>>

\* get_query_hash(query i)
HashQuery(i) ==
    /\ nkey[i] = <<>>
    /\ nkey' = [nkey EXCEPT ![i] = get_query_hash(Written(nbody, nq[i]))]
    /\ UNCHANGED <<nbody, nq, outsideNorm>>

NextNorm ==
    \/ \E i \in {1, 2}, g \in GreetingInputs : AddGreeting(i, g)
    \/ \E i \in {1, 2} : UpperCase(i)
    \/ \E i \in {1, 2}, k \in 1..8 : WidenGap(i, k)
    \/ \E i \in {1, 2} : HashQuery(i)

InitNorm == NormInit /\ CacheIdle /\ SearchIdle /\ BuildIdle /\ ClassIdle /\ ChunkIdle /\ IngestIdle /\ OverlapIdle /\ GenIdle

SpecNorm == InitNorm /\ [][NextNorm]_vars

\* C2: two queries that differ only by greeting prefixes, letter case or
\* whitespace have the same normalization and the same cache key.
C2_SameKeyUpToGreetingCaseSpace ==
    (nkey[1] # <<>> /\ nkey[2] # <<>>) =>
        /\ normalize_query(Written(nbody, nq[1])) = normalize_query(Written(nbody, nq[2]))
        /\ nkey[1] = nkey[2]

\* ------------------------------------------------------------------------
\* The retriever: search_knowledge with its client-side fallback
\* ------------------------------------------------------------------------

MaxChunks == 3      \* rows in the knowledge table
MaxTopK == 2        \* largest top_k asked for
SampleLimit == 2    \* the .limit(100) of the fallback's sample, scaled down

\* similarities are kept in hundredths
SimScale == 100

\* Embedding vectors: two-dimensional, with integer norms, so that every
\* cosine similarity between them is a whole number of hundredths.
Vectors == {<<1, 0>>, <<0, 1>>, <<3, 4>>, <<4, 3>>}

dot(v1, v2) == v1[1] * v2[1] + v1[2] * v2[2]

\* np.linalg.norm, exact on Vectors and on the zero vector
norm(v) == CHOOSE n \in 0..(dot(v, v)) : n * n = dot(v, v)

\* _cosine_similarity, in hundredths
cosine_similarity(vec1, vec2) ==
    IF norm(vec1) = 0 \/ norm(vec2) = 0 THEN 0
    ELSE (SimScale * dot(vec1, vec2)) \div (norm(vec1) * norm(vec2))

Min(a, b) == IF a < b THEN a ELSE b

RangeOf(f) == {f[i] : i \in DOMAIN f}

\* The SQL function match_knowledge: the rows whose similarity exceeds
\* match_threshold, nearest first, at most match_count of them.  SQL leaves
\* the order of rows at the same distance open, so this is the set of the
\* results the store may return.
match_knowledge(rows, query_embedding, match_threshold, match_count) ==
    LET sim(i) == cosine_similarity(rows[i].embedding, query_embedding)
        qual == {i \in 1..Len(rows) : sim(i) > match_threshold}
        n == Min(match_count, Cardinality(qual))
    IN { [j \in 1..n |-> [id |-> rows[pick[j]].id, similarity |-> sim(pick[j])]] :
           pick \in { f \in [1..n -> qual] :
                        /\ \A a, b \in 1..n : a < b => f[a] # f[b] /\ sim(f[a]) >= sim(f[b])
                        /\ \A i \in qual \ RangeOf(f) : \A a \in 1..n : sim(i) <= sim(f[a]) } }

\* a list sort by ascending similarity followed by a reversal of the list:
\* chunks with equal similarity come out in reverse store order
RECURSIVE sort_ascending_then_reverse(_)
sort_ascending_then_reverse(results) ==
    IF results = <<>> THEN <<>>
    ELSE LET rest == sort_ascending_then_reverse(Tail(results))
             x == Head(results)
             before == SelectSeq(rest, LAMBDA y : y.similarity >= x.similarity)
             after == SelectSeq(rest, LAMBDA y : y.similarity < x.similarity)
         IN before \o <<x>> \o after

\* results.sort(key=lambda x: x["similarity"], reverse=True): list.sort is
\* stable, also with reverse=True
RECURSIVE sort_by_similarity_reverse(_)
sort_by_similarity_reverse(results) ==
    IF results = <<>> THEN <<>>
    ELSE LET rest == sort_by_similarity_reverse(Tail(results))
             x == Head(results)
             before == SelectSeq(rest, LAMBDA y : y.similarity > x.similarity)
             after == SelectSeq(rest, LAMBDA y : y.similarity <= x.similarity)
         IN before \o <<x>> \o after

\* the first n elements of a list, list[:n] for n >= 0
first(list, n) == SubSeq(list, 1, Min(n, Len(list)))

\* _fallback_search on the sample the store returned: score every chunk,
\* sort, keep the first top_k.  (Every stored embedding parses: the loader
\* writes json.dumps(embedding) for each chunk it uploads.)
fallback_search(sample, query_embedding, top_k) ==
    IF sample = <<>> THEN <<>>
    ELSE LET results == [i \in 1..Len(sample) |->
                           [id |-> sample[i].id,
                            similarity |-> cosine_similarity(query_embedding,
                                                             sample[i].embedding)]]
         IN first(sort_by_similarity_reverse(results), top_k)

\* the knowledge tables of the model: up to MaxChunks rows, ids in store order
KnowledgeTables ==
    UNION { { [i \in 1..n |-> [id |-> i, embedding |-> e[i]]] : e \in [1..n -> Vectors] } :
            n \in 0..MaxChunks }

Thresholds == {60, 70}

SearchInit ==
    /\ knowledge \in KnowledgeTables
    /\ search = NoSearch

\* search_knowledge(query_embedding, top_k, similarity_threshold) is called
SearchStart(qe, k, t) ==
    /\ search.pc = "idle"
    /\ search' = [NoSearch EXCEPT !.pc = "primary", !.query_embedding = qe,
                                  !.top_k = k, !.similarity_threshold = t]
    /\ UNCHANGED <<knowledge, outsideSearch>>

\* the rpc("match_knowledge", ...) call raises: the except branch calls the
\* fallback
PrimaryRaises ==
    /\ search.pc = "primary"
    /\ search' = [search EXCEPT !.pc = "fallback", !.primary = "raised"]
    /\ UNCHANGED <<knowledge, outsideSearch>>

\* the rpc call returns: its rows are returned when there are any, otherwise
\* the fallback is called
PrimaryReturns ==
    /\ search.pc = "primary"
    /\ \E rows \in match_knowledge(knowledge, search.query_embedding,
                                   SimScale - search.similarity_threshold,
                                   search.top_k) :
          IF rows # <<>>
          THEN search' = [search EXCEPT !.pc = "returned", !.primary = "rows",
                                        !.outcome = "returned", !.result = rows]
          ELSE search' = [search EXCEPT !.pc = "fallback", !.primary = "empty"]
    /\ UNCHANGED <<knowledge, outsideSearch>>

\* a fallback whose except branch re-raises instead of returning []
FallbackSearchPropagates(db_fails) ==
    /\ search.pc = "fallback"
    /\ IF db_fails
       THEN search' = [search EXCEPT !.pc = "returned", !.fallback = "failed",
                                     !.outcome = "raised", !.result = <<>>]
       ELSE search' = [search EXCEPT
                         !.pc = "returned", !.fallback = "ok",
                         !.outcome = "returned",
                         !.result = fallback_search(first(knowledge, SampleLimit),
                                                    search.query_embedding,
                                                    search.top_k)]
    /\ UNCHANGED <<knowledge, outsideSearch>>

\* _fallback_search: select("*").limit(100), then the client-side ranking; an
\* exception gives the empty list
FallbackSearch(db_fails) ==
    /\ search.pc = "fallback"
    /\ IF db_fails
       THEN search' = [search EXCEPT !.pc = "returned", !.fallback = "failed",
                                     !.outcome = "returned", !.result = <<>>]
       ELSE search' = [search EXCEPT
                         !.pc = "returned", !.fallback = "ok",
                         !.outcome = "returned",
                         !.result = fallback_search(first(knowledge, SampleLimit),
                                                    search.query_embedding,
                                                    search.top_k)]
    /\ UNCHANGED <<knowledge, outsideSearch>>

\* the caller has the result
SearchEnd ==
    /\ search.pc = "returned"
    /\ search' = NoSearch
    /\ UNCHANGED <<knowledge, outsideSearch>>

NextSearch ==
    \/ \E qe \in Vectors, k \in 1..MaxTopK, t \in Thresholds : SearchStart(qe, k, t)
    \/ PrimaryRaises
    \/ PrimaryReturns
    \/ \E f \in BOOLEAN : FallbackSearch(f)
    \/ SearchEnd

InitSearch == SearchInit /\ CacheIdle /\ NormIdle /\ BuildIdle /\ ClassIdle /\ ChunkIdle /\ IngestIdle /\ OverlapIdle /\ GenIdle

SpecSearch == InitSearch /\ [][NextSearch]_vars

\* ------------------------------------------------------------------------
\* Properties of the retriever model
\* ------------------------------------------------------------------------

\* the chunks the fallback samples
Sample == first(knowledge, SampleLimit)

\* the similarity of sampled chunk i to the query of the call in progress
SampleSim(i) == cosine_similarity(search.query_embedding, Sample[i].embedding)

\* sampled chunk i ranks before sampled chunk j: higher similarity, or the
\* same similarity and earlier in the store's order
RanksBefore(i, j) ==
    \/ SampleSim(i) > SampleSim(j)
    \/ SampleSim(i) = SampleSim(j) /\ i < j

\* C3: every result search returns, by either path, has similarity strictly
\* above similarity_threshold, and at most top_k results are returned.
C3_ResultsAboveThreshold ==
    search.pc = "returned" =>
        /\ Len(search.result) <= search.top_k
        /\ \A j \in 1..Len(search.result) :
              search.result[j].similarity > search.similarity_threshold

\* C4: the fallback runs only after the primary call was attempted and failed;
\* a primary call that completed, also with zero rows, never leads to it.
C4_FallbackOnlyAfterPrimaryFailure ==
    (search.pc = "fallback" \/ search.fallback # None) => search.primary = "raised"

\* C5: the result of the fallback is the first top_k of the sampled chunks in
\* the order of descending similarity in which chunks of equal similarity keep
\* the store's order.
C5_FallbackStableTopK ==
    (search.pc = "returned" /\ search.fallback = "ok") =>
        LET r == search.result
        IN /\ Len(r) = Min(search.top_k, Len(Sample))
           /\ \E idx \in [1..Len(r) -> 1..Len(Sample)] :
                 /\ \A j \in 1..Len(r) :
                       r[j] = [id |-> Sample[idx[j]].id, similarity |-> SampleSim(idx[j])]
                 /\ \A a, b \in 1..Len(r) : a < b => RanksBefore(idx[a], idx[b])
                 /\ \A i \in (1..Len(Sample)) \ RangeOf(idx) :
                       \A a \in 1..Len(r) : RanksBefore(idx[a], i)

\* the fallback has returned two chunks of equal similarity, and a chunk of
\* the table was left out of the sample
C5_Witness ==
    /\ search.pc = "returned" /\ search.fallback = "ok"
    /\ Len(search.result) = 2
    /\ search.result[1].similarity = search.result[2].similarity
    /\ Len(knowledge) > Len(Sample)

\* C6: search_knowledge always returns to its caller; after the primary call
\* raised it returns what the fallback found in the sample, and the empty
\* list when the fallback failed too.
C6_SearchNeverRaises ==
    /\ search.outcome \in {None, "returned"}
    /\ search.pc = "returned" => search.outcome = "returned"
    /\ (search.pc = "returned" /\ search.primary = "raised") =>
          /\ search.fallback \in {"ok", "failed"}
          /\ search.fallback = "failed" => search.result = <<>>
          /\ search.fallback = "ok" =>
                /\ Len(search.result) = Min(search.top_k, Len(Sample))
                /\ \A j \in 1..Len(search.result) :
                      \E i \in 1..Len(Sample) : search.result[j].id = Sample[i].id

\* primary and fallback have both failed and the caller got the empty list
C6_Witness ==
    /\ search.pc = "returned" /\ search.outcome = "returned"
    /\ search.primary = "raised" /\ search.fallback = "failed"
    /\ search.result = <<>> /\ knowledge # <<>>

\* ------------------------------------------------------------------------
\* The context assembler: build_context
\* ------------------------------------------------------------------------

MaxTurns == 6       \* conversation turns stored for the user
MaxFacts == 6       \* memory facts stored for the user

TOP_K_KNOWLEDGE_CHUNKS == 3
MAX_CONVERSATION_HISTORY == 5
MAX_CONTEXT_TOKENS == 2000
MemoryLimit == 10
TrimKnowledge == 3
TrimMemory == 5
TrimHistory == 3

\* the tokens the tokenizer counts for one chunk, one turn, one fact (the same
\* for every item of a build), and for the query
ItemCosts == {100, 400}
QueryTokens == 4

BuildQuery == <<"w", "h", "a", "t", " ", "i", "s", " ", "x">>
BuildEmbedding == <<3, 4>>

\* n, n-1, ..., n-count+1
RECURSIVE Descending(_, _)
Descending(n, count) ==
    IF count = 0 THEN <<>> ELSE <<n>> \o Descending(n - 1, count - 1)

\* 1, 2, ..., count
Ascending(count) == [j \in 1..count |-> j]

\* the store's query without desc=True: the oldest turns, oldest first
get_recent_conversations_oldest_first(turns, limit) ==
    [j \in 1..Min(turns, limit) |-> [created_at |-> Ascending(Min(turns, limit))[j]]]

\* get_recent_conversations: the user's turns, newest first, at most `limit`
get_recent_conversations(turns, limit) ==
    [j \in 1..Min(turns, limit) |-> [created_at |-> Descending(turns, Min(turns, limit))[j]]]

\* get_user_memory: the user's facts, most recently referenced first (fact n
\* is the most recent), at most `limit`
get_user_memory(facts, limit) ==
    [j \in 1..Min(facts, limit) |-> [fact_key |-> Descending(facts, Min(facts, limit))[j]]]

\* what search_knowledge finds for the query: the chunks ranked 1..n
found_chunks(n, top_k) ==
    [j \in 1..Min(n, top_k) |-> [id |-> j]]

\* a trim that leaves the history as fetched
trim_context_keeps_history(context_parts) ==
    [knowledge_chunks |-> first(context_parts.knowledge_chunks, TrimKnowledge),
     user_memory |-> first(context_parts.user_memory, TrimMemory),
     conversation_history |-> context_parts.conversation_history,
     query |-> context_parts.query,
     query_embedding |-> context_parts.query_embedding]

\* _trim_context
trim_context(context_parts) ==
    [knowledge_chunks |-> first(context_parts.knowledge_chunks, TrimKnowledge),
     user_memory |-> first(context_parts.user_memory, TrimMemory),
     conversation_history |-> first(context_parts.conversation_history, TrimHistory),
     query |-> context_parts.query,
     query_embedding |-> context_parts.query_embedding]

\* an assembly whose total leaves the query's tokens out
assemble_context_total_without_query(knowledge_chunks, conversation_history, user_memory, query, query_embedding, cost, max_context_tokens) ==
    LET context_parts == [knowledge_chunks |-> knowledge_chunks,
                          conversation_history |-> conversation_history,
                          user_memory |-> user_memory,
                          query |-> query,
                          query_embedding |-> query_embedding]
        knowledge_tokens == cost * Len(knowledge_chunks)
        history_tokens == cost * Len(conversation_history)
        memory_tokens == cost * Len(user_memory)
        query_tokens == QueryTokens
        total_tokens == knowledge_tokens + history_tokens + memory_tokens
        kept == IF total_tokens > max_context_tokens
                THEN trim_context(context_parts)
                ELSE context_parts
    IN kept @@ [token_count |-> [knowledge |-> knowledge_tokens,
                                 history |-> history_tokens,
                                 memory |-> memory_tokens,
                                 query |-> query_tokens,
                                 total |-> total_tokens]]

\* build_context from step 5 on: count the tokens, trim when over budget,
\* attach the token breakdown
assemble_context(knowledge_chunks, conversation_history, user_memory, query, query_embedding, cost, max_context_tokens) ==
    LET context_parts == [knowledge_chunks |-> knowledge_chunks,
                          conversation_history |-> conversation_history,
                          user_memory |-> user_memory,
                          query |-> query,
                          query_embedding |-> query_embedding]
        knowledge_tokens == cost * Len(knowledge_chunks)
        history_tokens == cost * Len(conversation_history)
        memory_tokens == cost * Len(user_memory)
        query_tokens == QueryTokens
        total_tokens == knowledge_tokens + history_tokens + memory_tokens + query_tokens
        kept == IF total_tokens > max_context_tokens
                THEN trim_context(context_parts)
                ELSE context_parts
    IN kept @@ [token_count |-> [knowledge |-> knowledge_tokens,
                                 history |-> history_tokens,
                                 memory |-> memory_tokens,
                                 query |-> query_tokens,
                                 total |-> total_tokens]]

\* reversed(conversation_history), as the prompt formatter reads the history
reversed(list) == [j \in 1..Len(list) |-> list[Len(list) + 1 - j]]

\* the bundle of build_context's except branch
minimal_context(query) ==
    [knowledge_chunks |-> <<>>, conversation_history |-> <<>>, user_memory |-> <<>>,
     query |-> query, token_count |-> [total |-> 0]]

BuildInit ==
    /\ stored \in [chunks : 0..TOP_K_KNOWLEDGE_CHUNKS, turns : 0..MaxTurns,
                   facts : 0..MaxFacts, cost : ItemCosts]
    /\ build = NoBuild

\* build_context(user_id, query, ...) is called
BuildStart ==
    /\ build.pc = "idle"
    /\ build' = [NoBuild EXCEPT !.pc = "embed"]
    /\ UNCHANGED <<stored, outsideBuild>>

\* 1. generate_query_embedding: it re-raises the provider's error, and
\* build_context's except branch returns the minimal bundle
BuildEmbed(ok) ==
    /\ build.pc = "embed"
    /\ IF ok
       THEN build' = [build EXCEPT !.pc = "search", !.query_embedding = BuildEmbedding]
       ELSE build' = [build EXCEPT !.pc = "returned", !.failed = {"embedding"},
                                   !.outcome = "returned",
                                   !.bundle = minimal_context(BuildQuery)]
    /\ UNCHANGED <<stored, outsideBuild>>

\* 2. search_knowledge: the chunks found, or [] when primary and fallback fail
BuildSearch(fails) ==
    /\ build.pc = "search"
    /\ build' = [build EXCEPT
                   !.pc = "history",
                   !.failed = IF fails THEN @ \cup {"knowledge"} ELSE @,
                   !.knowledge_chunks =
                       IF fails THEN <<>>
                       ELSE found_chunks(stored.chunks, TOP_K_KNOWLEDGE_CHUNKS)]
    /\ UNCHANGED <<stored, outsideBuild>>

\* 3. get_recent_conversations: [] when the store raises
BuildHistory(fails) ==
    /\ build.pc = "history"
    /\ build' = [build EXCEPT
                   !.pc = "memory",
                   !.failed = IF fails THEN @ \cup {"history"} ELSE @,
                   !.conversation_history =
                       IF fails THEN <<>>
                       ELSE get_recent_conversations(stored.turns,
                                                     MAX_CONVERSATION_HISTORY)]
    /\ UNCHANGED <<stored, outsideBuild>>

\* 4. get_user_memory: [] when the store raises
BuildMemory(fails) ==
    /\ build.pc = "memory"
    /\ build' = [build EXCEPT
                   !.pc = "assemble",
                   !.failed = IF fails THEN @ \cup {"memory"} ELSE @,
                   !.user_memory =
                       IF fails THEN <<>> ELSE get_user_memory(stored.facts, MemoryLimit)]
    /\ UNCHANGED <<stored, outsideBuild>>

\* 5. token counts, trimming, return
BuildAssemble ==
    /\ build.pc = "assemble"
    /\ build' = [build EXCEPT
                   !.pc = "returned",
                   !.outcome = "returned",
                   !.bundle = assemble_context(build.knowledge_chunks,
                                               build.conversation_history,
                                               build.user_memory, BuildQuery,
                                               build.query_embedding, stored.cost,
                                               MAX_CONTEXT_TOKENS)]
    /\ UNCHANGED <<stored, outsideBuild>>

\* the caller has the bundle
BuildEnd ==
    /\ build.pc = "returned"
    /\ build' = NoBuild
    /\ UNCHANGED <<stored, outsideBuild>>

NextBuild ==
    \/ BuildStart
    \/ \E ok \in BOOLEAN : BuildEmbed(ok)
    \/ \E f \in BOOLEAN : BuildSearch(f)
    \/ \E f \in BOOLEAN : BuildHistory(f)
    \/ \E f \in BOOLEAN : BuildMemory(f)
    \/ BuildAssemble
    \/ BuildEnd

InitBuild == BuildInit /\ CacheIdle /\ NormIdle /\ SearchIdle /\ ClassIdle /\ ChunkIdle /\ IngestIdle /\ OverlapIdle /\ GenIdle

SpecBuild == InitBuild /\ [][NextBuild]_vars

\* ------------------------------------------------------------------------
\* Properties of the context assembler model
\* ------------------------------------------------------------------------

\* the lists a build returns for a fetched list: the list itself, or its
\* prefix of the trimming cap
AsFetched(list, cap) == {list, first(list, cap)}

\* C10: build always returns a bundle and never raises, and a failed sub-fetch
\* (query embedding, knowledge retrieval, history fetch, memory fetch) empties
\* only its own component: the history and the memory of the bundle are the
\* ones the store holds unless their own fetch failed, and so is the knowledge
\* unless the retrieval or the embedding it needs failed.
C10_FailureEmptiesOnlyItsComponent ==
    build.pc = "returned" =>
        /\ build.outcome = "returned"
        /\ "history" \notin build.failed =>
              build.bundle.conversation_history
                 \in AsFetched(get_recent_conversations(stored.turns,
                                                        MAX_CONVERSATION_HISTORY),
                               TrimHistory)
        /\ "memory" \notin build.failed =>
              build.bundle.user_memory
                 \in AsFetched(get_user_memory(stored.facts, MemoryLimit), TrimMemory)
        /\ (build.failed \cap {"knowledge", "embedding"}) = {} =>
              build.bundle.knowledge_chunks
                 \in AsFetched(found_chunks(stored.chunks, TOP_K_KNOWLEDGE_CHUNKS),
                               TrimKnowledge)

\* the turns of a list are strictly older and older (newest first)
NewestFirst(list) ==
    \A i, j \in 1..Len(list) : i < j => list[i].created_at > list[j].created_at

\* the turns of a list are strictly newer and newer (the most recent is last)
OldestFirst(list) ==
    \A i, j \in 1..Len(list) : i < j => list[i].created_at < list[j].created_at

IsPrefix(short, list) ==
    Len(short) <= Len(list) /\ short = SubSeq(list, 1, Len(short))

\* C11 (as claimed): in every bundle returned by build, conversation_history
\* is ordered oldest to newest (the most recent turn is last), the reverse of
\* the newest-first list returned by the store.
C11_HistoryOldestFirst ==
    build.pc = "returned" => OldestFirst(build.bundle.conversation_history)

\* C11 (amended): in every bundle returned by build, conversation_history is
\* ordered newest to oldest: it is the newest-first list returned by the store
\* or, after trimming, a prefix of it, and its most recent turn is first; the
\* reversal to oldest-first is made by the prompt formatter that reads it.
C11_HistoryNewestFirst ==
    build.pc = "returned" =>
        /\ NewestFirst(build.bundle.conversation_history)
        /\ IsPrefix(build.bundle.conversation_history,
                    get_recent_conversations(stored.turns, MAX_CONVERSATION_HISTORY))
        /\ OldestFirst(reversed(build.bundle.conversation_history))

\* a build returned a bundle with several turns, the most recent one first
C11_Witness ==
    /\ build.pc = "returned"
    /\ Len(build.bundle.conversation_history) >= 2
    /\ build.bundle.conversation_history[1].created_at = stored.turns

\* the token counts a bundle reports for its components
ReportedComponents(token_count) ==
    DOMAIN token_count \cap {"knowledge", "history", "memory", "query"}

RECURSIVE SumReported(_, _)
SumReported(token_count, keys) ==
    IF keys = {} THEN 0
    ELSE LET k == CHOOSE x \in keys : TRUE
         IN token_count[k] + SumReported(token_count, keys \ {k})

\* C12: in every bundle returned by build (untrimmed, trimmed, or the failure
\* bundle), the reported total token count equals the sum of the reported
\* knowledge, history, memory and query token counts; a bundle reports either
\* all four component counts or (the failure bundle) none, with a total of 0.
C12_TotalIsSumOfComponents ==
    build.pc = "returned" =>
        LET token_count == build.bundle.token_count
        IN /\ token_count.total = SumReported(token_count, ReportedComponents(token_count))
           /\ \/ ReportedComponents(token_count) = {"knowledge", "history", "memory", "query"}
              \/ ReportedComponents(token_count) = {} /\ "embedding" \in build.failed

\* a trimmed bundle: the total is over the budget and the history was cut
C12_Witness ==
    /\ build.pc = "returned"
    /\ build.bundle.token_count.total > MAX_CONTEXT_TOKENS
    /\ Len(build.bundle.conversation_history) < Len(build.conversation_history)
    /\ build.bundle.token_count.query > 0

C22_BreakdownOfTrimmedComponents ==
    (/\ build.pc = "returned"
     /\ "embedding" \notin build.failed
     /\ build.bundle.token_count.total > MAX_CONTEXT_TOKENS)
    => LET b == build.bundle
           knowledge_tokens == stored.cost * Len(b.knowledge_chunks)
           history_tokens == stored.cost * Len(b.conversation_history)
           memory_tokens == stored.cost * Len(b.user_memory)
       IN /\ b.token_count.knowledge = knowledge_tokens
          /\ b.token_count.history = history_tokens
          /\ b.token_count.memory = memory_tokens
          /\ b.token_count.total = knowledge_tokens + history_tokens + memory_tokens + b.token_count.query

\* C27: every bundle build_context returns, the minimal bundle of a failed
\* build included, has a query_embedding entry (which the conversation save
\* and the cache store of the chat path read).
C27_BundleHasQueryEmbedding ==
    build.pc = "returned" =>
        /\ "query_embedding" \in DOMAIN build.bundle
        /\ "query" \in DOMAIN build.bundle

\* ------------------------------------------------------------------------
\* The complexity classifier: classify_query_complexity on written queries
\* ------------------------------------------------------------------------

MaxPhrases == 2     \* phrases a query is put together from

\* the phrases a query is written with, and what each one is: a configured
\* simple keyword, a configured complex keyword, or neither
Phrases ==
    << [text |-> <<"w", "h", "a", "t", " ", "i", "s">>, kind |-> "simple"],
       [text |-> <<"e", "x", "p", "l", "a", "i", "n">>, kind |-> "simple"],
       [text |-> <<"c", "o", "m", "p", "a", "r", "e">>, kind |-> "complex"],
       [text |-> <<"o", "p", "t", "i", "m", "i", "z", "e">>, kind |-> "complex"],
       [text |-> <<"e", "c", "2">>, kind |-> "plain"],
       [text |-> <<"o", "u", "r">>, kind |-> "plain"] >>

\* tokens of the rest of the query (text with no keyword in it), chosen so
\* that the counts fall on both sides of the two thresholds
FillerTokens == {96, 97, 98, 99, 297, 298, 299, 300}

\* the query text: the phrases with one space between them, in upper case or not
QueryText(q) ==
    LET text == join([j \in 1..Len(q.phrases) |-> Phrases[q.phrases[j]].text])
    IN IF q.upper THEN [i \in 1..Len(text) |-> upper_char(text[i])] ELSE text

\* count_tokens(query): one token per word written, plus the filler's tokens
count_tokens(q) == Len(split(QueryText(q))) + q.filler

\* one more phrase at the end of the query
WritePhrase(i) ==
    /\ cq.pc = "writing"
    /\ Len(cq.phrases) < MaxPhrases
    /\ cq' = [cq EXCEPT !.phrases = Append(@, i)]
    /\ UNCHANGED <<tier, outsideClass>>

\* the query is written in upper case
WriteUpperCase ==
    /\ cq.pc = "writing"
    /\ ~ cq.upper
    /\ cq' = [cq EXCEPT !.upper = TRUE]
    /\ UNCHANGED <<tier, outsideClass>>

\* the query gets a long text without keywords
WriteFiller(n) ==
    /\ cq.pc = "writing"
    /\ cq.filler = 0
    /\ cq' = [cq EXCEPT !.filler = n]
    /\ UNCHANGED <<tier, outsideClass>>

\* classify_query_complexity(query)
ClassifyQuery ==
    /\ cq.pc = "writing"
    /\ cq' = [cq EXCEPT !.pc = "classified"]
    /\ tier' = classify_query_complexity(QueryText(cq), count_tokens(cq))
    /\ UNCHANGED outsideClass

NextClass ==
    \/ \E i \in DOMAIN Phrases : WritePhrase(i)
    \/ WriteUpperCase
    \/ \E n \in FillerTokens : WriteFiller(n)
    \/ ClassifyQuery

InitClass == ClassIdle /\ CacheIdle /\ NormIdle /\ SearchIdle /\ BuildIdle /\ ChunkIdle /\ IngestIdle /\ OverlapIdle /\ GenIdle

SpecClass == InitClass /\ [][NextClass]_vars

\* the query was written with a phrase of this kind
WrittenWith(kind) == \E j \in 1..Len(cq.phrases) : Phrases[cq.phrases[j]].kind = kind

\* C14: classify returns simple exactly when the query contains a simple
\* keyword and token_count is below 100; otherwise complex exactly when the
\* query contains a complex keyword or token_count exceeds 300; otherwise
\* medium. Rule (a) wins when both keyword kinds match, and a query with only a
\* complex keyword is complex however low its token count.
C14_ClassifyRules ==
    cq.pc = "classified" =>
        /\ tier = "simple" <=> (WrittenWith("simple") /\ count_tokens(cq) < 100)
        /\ tier = "complex" <=>
              /\ ~ (WrittenWith("simple") /\ count_tokens(cq) < 100)
              /\ WrittenWith("complex") \/ count_tokens(cq) > 300
        /\ tier \in {"simple", "complex", "medium"}
        /\ (WrittenWith("simple") /\ WrittenWith("complex") /\ count_tokens(cq) < 100)
              => tier = "simple"
        /\ (WrittenWith("complex") /\ ~ WrittenWith("simple")) => tier = "complex"

\* a short query with a keyword of each kind was classified simple
C14_Witness ==
    /\ cq.pc = "classified"
    /\ WrittenWith("simple") /\ WrittenWith("complex")
    /\ count_tokens(cq) < 100
    /\ tier = "simple"

\* ------------------------------------------------------------------------
\* The chunker: MarkdownProcessor.process_markdown_file
\*
\* A text is a sequence of parts (a section title, paragraphs, an overlap
\* excerpt) joined by blank lines; the tokenizer (tiktoken, external) counts
\* the tokens of each part, and `sep` tokens for a blank line between two
\* parts: 1 when the blank line is a token of its own, 0 when it merges
\* with the punctuation in front of it.
\* ------------------------------------------------------------------------

MaxParagraphs == 3  \* paragraphs of a section

max_chunk_tokens == 750
overlap_tokens == 50

\* tokens of a section title
TitleTokens == 2

\* tokens of a paragraph; the first paragraph of a section holds its heading
ParagraphSizes == {99, 100, 299, 300, 399, 400, 700, 740, 799, 800}

\* tokens of the sentence _get_overlap finds at the end of a chunk
SentenceSizes == {20, 60}

\* a section: its paragraphs, in order
SectionsUpTo(n) == UNION {[1..k -> ParagraphSizes] : k \in 1..n}

\* section A of the documents: one paragraph of 300 tokens
SectionA == <<300>>

Part(kind, index, tokens, from) ==
    [kind |-> kind, index |-> index, tokens |-> tokens, from |-> from]

RECURSIVE SumTokens(_)
SumTokens(parts) ==
    IF parts = <<>> THEN 0 ELSE Head(parts).tokens + SumTokens(Tail(parts))

\* count_tokens of a text
text_tokens(parts, sep) ==
    IF parts = <<>> THEN 0 ELSE SumTokens(parts) + sep * (Len(parts) - 1)

\* section["content"].strip().split("\n\n")
paragraphs_of(section) ==
    [k \in 1..Len(section) |-> Part("para", k, section[k], <<>>)]

\* an overlap of everything before, as tokens[-0:] gives
get_overlap_whole_text(text, tok) ==
    Part("overlap", 0, text_tokens(text, tok.sep), text)

\* _get_overlap: the last sentence when it fits overlap_tokens, else the
\* last overlap_tokens tokens of the text (all of it when it is shorter)
get_overlap(text, tok) ==
    LET n == IF text[Len(text)].kind = "para" /\ tok.sentence <= overlap_tokens
             THEN Min(tok.sentence, text_tokens(text, tok.sep))
             ELSE Min(overlap_tokens, text_tokens(text, tok.sep))
    IN Part("overlap", 0, n, text)

\* the paragraph loop of create_chunks_from_section, from paragraph i on
RECURSIVE chunk_paragraphs(_, _, _, _, _, _)
chunk_paragraphs(paragraphs, i, chunks, current_chunk, current_tokens, tok) ==
    IF i > Len(paragraphs)
    THEN IF current_chunk # <<>> THEN Append(chunks, current_chunk) ELSE chunks
    ELSE LET para == paragraphs[i]
         IN IF current_tokens + para.tokens > max_chunk_tokens /\ current_chunk # <<>>
            THEN LET seeded == <<get_overlap(current_chunk, tok), para>>
                 IN chunk_paragraphs(paragraphs, i + 1, Append(chunks, current_chunk),
                                     seeded, text_tokens(seeded, tok.sep), tok)
            ELSE chunk_paragraphs(paragraphs, i + 1, chunks,
                                  Append(current_chunk, para),
                                  current_tokens + para.tokens, tok)

\* create_chunks_from_section
create_chunks_from_section(section, tok) ==
    LET content == paragraphs_of(section)
        title == <<Part("title", 0, TitleTokens, <<>>)>>
    IN IF text_tokens(content, tok.sep) <= max_chunk_tokens
       THEN <<content>>
       ELSE chunk_paragraphs(content, 1, <<>>, title, text_tokens(title, tok.sep), tok)

\* split_by_sections: a file with no text has no section
split_by_sections(d) ==
    IF d.kind = "text" THEN d.sections ELSE <<>>

\* the chunk dictionaries process_markdown_file makes of one section's chunks
chunk_data(section_chunks, section_index, first_index, tok) ==
    [j \in 1..Len(section_chunks) |->
        [content |-> section_chunks[j],
         token_count |-> text_tokens(section_chunks[j], tok.sep),
         chunk_index |-> first_index + j - 1,
         section |-> section_index]]

Documents ==
    {[kind |-> k, sections |-> <<>>, sep |-> 0, sentence |-> 0] :
        k \in {"unreadable", "empty", "whitespace"}}
    \cup {[kind |-> "text", sections |-> s, sep |-> p, sentence |-> t] :
            s \in {<<b>> : b \in SectionsUpTo(MaxParagraphs)}
                  \cup {<<SectionA, b>> : b \in SectionsUpTo(MaxParagraphs)},
            p \in {0, 1}, t \in SentenceSizes}

ChunkInit ==
    /\ doc \in Documents
    /\ seg = NoSegmenting

\* process_markdown_file(file_path) is called
SegmentStart ==
    /\ seg.pc = "idle"
    /\ seg' = [seg EXCEPT !.pc = "read"]
    /\ UNCHANGED <<doc, outsideChunk>>

\* read_markdown_file: it logs and re-raises what open() or read() raises
ReadMarkdownFile ==
    /\ seg.pc = "read"
    /\ IF doc.kind = "unreadable"
       THEN seg' = [seg EXCEPT !.pc = "done", !.outcome = "raised"]
       ELSE seg' = [seg EXCEPT !.pc = "split"]
    /\ UNCHANGED <<doc, outsideChunk>>

\* extract_metadata_from_content and split_by_sections
SplitBySections ==
    /\ seg.pc = "split"
    /\ seg' = [seg EXCEPT !.pc = "chunk", !.sections = split_by_sections(doc), !.next = 1]
    /\ UNCHANGED <<doc, outsideChunk>>

\* one turn of `for section in sections`
ChunkSection ==
    /\ seg.pc = "chunk"
    /\ seg.next <= Len(seg.sections)
    /\ LET tok == [sep |-> doc.sep, sentence |-> doc.sentence]
           section_chunks == create_chunks_from_section(seg.sections[seg.next], tok)
       IN seg' = [seg EXCEPT
                    !.next = @ + 1,
                    !.all_chunks = @ \o chunk_data(section_chunks, seg.next,
                                                   Len(seg.all_chunks), tok)]
    /\ UNCHANGED <<doc, outsideChunk>>

\* the summary log line divides by len(all_chunks), then `return all_chunks`
LogAndReturn ==
    /\ seg.pc = "chunk"
    /\ seg.next > Len(seg.sections)
    /\ IF Len(seg.all_chunks) = 0
       THEN seg' = [seg EXCEPT !.pc = "done", !.outcome = "raised"]
       ELSE seg' = [seg EXCEPT !.pc = "done", !.outcome = "returned"]
    /\ UNCHANGED <<doc, outsideChunk>>

NextChunk ==
    \/ SegmentStart
    \/ ReadMarkdownFile
    \/ SplitBySections
    \/ ChunkSection
    \/ LogAndReturn

InitChunk == ChunkInit /\ CacheIdle /\ NormIdle /\ SearchIdle /\ BuildIdle /\ ClassIdle /\ IngestIdle /\ OverlapIdle /\ GenIdle

SpecChunk == InitChunk /\ [][NextChunk]_vars

\* the chunks made of section number s
ChunksOfSection(s) == SelectSeq(seg.all_chunks, LAMBDA c : c.section = s)

\* the paragraphs of a chunk
ParagraphsIn(content) == SelectSeq(content, LAMBDA part : part.kind = "para")

\* C15: segmenting an empty or whitespace-only document, or an unreadable
\* file, yields an empty chunk list and raises no error.
C15_NoTextNoChunksNoError ==
    (seg.pc = "done" /\ doc.kind \in {"empty", "whitespace", "unreadable"}) =>
        /\ seg.outcome = "returned"
        /\ seg.all_chunks = <<>>

\* C16: every chunk emitted by the chunker has at most max_chunk_tokens
\* tokens, except a chunk made of a single paragraph that alone exceeds
\* max_chunk_tokens; in particular a chunk seeded with an overlap excerpt plus
\* paragraphs that each fit the maximum stays within the maximum.
C16_ChunksWithinMaximum ==
    \A j \in 1..Len(seg.all_chunks) :
        LET c == seg.all_chunks[j]
        IN \/ c.token_count <= max_chunk_tokens
           \/ /\ Len(ParagraphsIn(c.content)) = 1
              /\ ParagraphsIn(c.content)[1].tokens > max_chunk_tokens

\* C17 (as claimed): with max=750 and overlap=50, a document made of a section
\* A of 300 tokens and a section B of 900 tokens segments into exactly 1 chunk
\* for A and exactly 2 chunks for B for every division of B into paragraphs,
\* and every chunk of an over-size section after the first begins with the
\* overlap excerpt taken from the chunk before it.
SectionTokens(s) == text_tokens(paragraphs_of(doc.sections[s]), doc.sep)

IsDocumentAB ==
    /\ doc.kind = "text"
    /\ Len(doc.sections) = 2
    /\ SectionTokens(1) = 300
    /\ SectionTokens(2) = 900

BeginsWithOverlapOfPrevious(s) ==
    \A j \in 2..Len(ChunksOfSection(s)) :
        LET c == ChunksOfSection(s)[j].content
            before == ChunksOfSection(s)[j - 1].content
        IN c[1].kind = "overlap" /\ c[1].from = before /\ c[1].tokens <= overlap_tokens

ParagraphsAtMost(s, n) ==
    /\ Len(doc.sections[s]) <= 10
    /\ TitleTokens <= overlap_tokens
    /\ \A k \in 1..Len(doc.sections[s]) : doc.sections[s][k] <= n

MaxTexts == 4           \* chunks of the run that embeds
MaxUploadChunks == 3    \* chunks of each of the parallel uploading runs
UploadBatchSize == 2    \* batch_size=100 of upload_chunks_batch, scaled down

\* EMBEDDING_BATCH_SIZE, scaled down
EmbedBatchSizes == {1, 2, 3}

\* chunk contents
ChunkTexts == { <<"a">>, <<"b">>, <<"a", "\n", "b">> }

\* text.replace("\n", " ")
replace_newlines(text) ==
    [n \in 1..Len(text) |-> IF text[n] = "\n" THEN " " ELSE text[n]]

\* the vector the provider returns for a text sent to it
provider_embedding(text) == <<"vec", text>>

\* generate_chunk_hash
generate_chunk_hash(content) == md5_hexdigest(content)

\* the chunk dictionaries a run has made of its files
MakeChunks(contents, r) ==
    [n \in 1..Len(contents) |->
        [content |-> contents[n], content_hash |-> generate_chunk_hash(contents[n]),
         chunk_index |-> n - 1, source_file |-> r, embedding |-> <<>>]]

SeqsUpTo(S, n) == UNION {[1..m -> S] : m \in 0..n}

\* texts = [chunk["content"] for chunk in chunks]
texts_of(chunks) == [n \in 1..Len(chunks) |-> chunks[n].content]

\* texts[i : i + batch_size], each with its newlines replaced
embed_batch_input(texts, i, batch_size) ==
    LET batch == SubSeq(texts, i + 1, Min(i + batch_size, Len(texts)))
    IN [n \in 1..Len(batch) |-> replace_newlines(batch[n])]

\* [item.embedding for item in response.data]: one item per input, in order
batch_embeddings(batch) == [n \in 1..Len(batch) |-> provider_embedding(batch[n])]

\* zip(chunks, embeddings): chunk["embedding"] = embedding
attach_embeddings(chunks, embeddings) ==
    [n \in 1..Len(chunks) |->
        IF n <= Len(embeddings) THEN [chunks[n] EXCEPT !.embedding = embeddings[n]]
        ELSE chunks[n]]

\* main reaches step 2: embedder.embed_chunks(all_chunks)
IngestStart(r) ==
    /\ run[r].pc = "start"
    /\ run' = [run EXCEPT ![r].pc = "embed", ![r].i = 0, ![r].all_embeddings = <<>>]
    /\ UNCHANGED <<kb, outsideIngest>>

\* one turn of the batch loop of generate_embeddings_batch: the provider call
EmbedCall(r) ==
    /\ run[r].pc = "embed"
    /\ run[r].i < Len(run[r].chunks)
    /\ run' = [run EXCEPT ![r].pc = "embed_wait", ![r].calls = @ + 1,
                          ![r].outstanding = @ + 1]
    /\ UNCHANGED <<kb, outsideIngest>>

\* a loop turn whose response prepends its embeddings
EmbedResponsePrepends(r, ok) ==
    /\ run[r].pc = "embed_wait"
    /\ LET me == run[r]
           batch == embed_batch_input(texts_of(me.chunks), me.i, me.batch_size)
       IN IF ok
          THEN run' = [run EXCEPT
                         ![r].outstanding = @ - 1,
                         ![r].all_embeddings = batch_embeddings(batch) \o @,
                         ![r].i = @ + me.batch_size,
                         ![r].pc = IF me.i + me.batch_size < Len(me.chunks)
                                   THEN "sleep" ELSE "embed"]
          ELSE run' = [run EXCEPT
                         ![r].outstanding = @ - 1,
                         ![r].pc = "aborted",
                         ![r].report = [error |-> "Failed to generate embeddings"]]
    /\ UNCHANGED <<kb, outsideIngest>>

\* the provider answers, or raises: generate_embeddings_batch re-raises and
\* main prints the error and exits
EmbedResponse(r, ok) ==
    /\ run[r].pc = "embed_wait"
    /\ LET me == run[r]
           batch == embed_batch_input(texts_of(me.chunks), me.i, me.batch_size)
       IN IF ok
          THEN run' = [run EXCEPT
                         ![r].outstanding = @ - 1,
                         ![r].all_embeddings = @ \o batch_embeddings(batch),
                         ![r].i = @ + me.batch_size,
                         ![r].pc = IF me.i + me.batch_size < Len(me.chunks)
                                   THEN "sleep" ELSE "embed"]
          ELSE run' = [run EXCEPT
                         ![r].outstanding = @ - 1,
                         ![r].pc = "aborted",
                         ![r].report = [error |-> "Failed to generate embeddings"]]
    /\ UNCHANGED <<kb, outsideIngest>>

\* time.sleep(1) between two batches
EmbedSleep(r) ==
    /\ run[r].pc = "sleep"
    /\ run' = [run EXCEPT ![r].pc = "embed", ![r].sleeps = @ + 1]
    /\ UNCHANGED <<kb, outsideIngest>>

\* generate_embeddings_batch returns, embed_chunks attaches the vectors, and
\* main prints the quality check: with no chunk, verify_embedding_quality
\* returns {"error": ...} and reading quality['embedding_dimension'] raises
EmbedReturn(r) ==
    /\ run[r].pc = "embed"
    /\ run[r].i >= Len(run[r].chunks)
    /\ run' = [run EXCEPT
                 ![r].embedded = TRUE,
                 ![r].embeddings = run[r].all_embeddings,
                 ![r].chunks = attach_embeddings(@, run[r].all_embeddings),
                 ![r].pc = IF Len(run[r].chunks) = 0 THEN "aborted" ELSE "upload",
                 ![r].report = IF Len(run[r].chunks) = 0
                               THEN [error |-> "Failed to generate embeddings"]
                               ELSE @,
                 ![r].j = 0]
    /\ UNCHANGED <<kb, outsideIngest>>

\* prepare_chunk_for_insert
prepare_chunk_for_insert(chunk) ==
    [content |-> chunk.content, content_hash |-> chunk.content_hash,
     embedding |-> <<"json", chunk.embedding>>, source_file |-> chunk.source_file,
     chunk_index |-> chunk.chunk_index]

\* an upload by plain insert: every row is added
insert_row(rows, prepared) == Append(rows, prepared)

\* .upsert(prepared, on_conflict="content_hash") of one row: the row that has
\* this content_hash is overwritten, else the row is added
upsert_row(rows, prepared) ==
    IF \E n \in 1..Len(rows) : rows[n].content_hash = prepared.content_hash
    THEN [n \in 1..Len(rows) |->
             IF rows[n].content_hash = prepared.content_hash THEN prepared ELSE rows[n]]
    ELSE Append(rows, prepared)

RECURSIVE upsert_rows(_, _)
upsert_rows(rows, prepared_batch) ==
    IF prepared_batch = <<>> THEN rows
    ELSE upsert_rows(upsert_row(rows, Head(prepared_batch)), Tail(prepared_batch))

\* one statement cannot write the same content_hash twice: the database
\* rejects a batch that names a content_hash more than once
batch_conflicts(prepared_batch) ==
    \E m, n \in 1..Len(prepared_batch) :
        m # n /\ prepared_batch[m].content_hash = prepared_batch[n].content_hash

\* chunks[i : i + batch_size] of upload_chunks_batch
upload_batch(chunks, j) == SubSeq(chunks, j + 1, Min(j + UploadBatchSize, Len(chunks)))

\* one turn of the batch loop of upload_chunks_batch: the batch upsert, or on
\* its error the start of the chunk-by-chunk uploads
UploadBatch(r, db_fails) ==
    /\ run[r].pc = "upload"
    /\ run[r].j < Len(run[r].chunks)
    /\ LET batch == upload_batch(run[r].chunks, run[r].j)
           prepared_batch == [n \in 1..Len(batch) |-> prepare_chunk_for_insert(batch[n])]
       IN IF db_fails \/ batch_conflicts(prepared_batch)
          THEN /\ run' = [run EXCEPT ![r].pc = "upload_chunk", ![r].k = 0]
               /\ UNCHANGED kb
          ELSE /\ kb' = upsert_rows(kb, prepared_batch)
               /\ run' = [run EXCEPT ![r].successful = @ + Len(batch),
                                     ![r].j = @ + UploadBatchSize]
    /\ UNCHANGED outsideIngest

\* upload_chunk of the next chunk of the failed batch
UploadChunk(r, db_fails) ==
    /\ run[r].pc = "upload_chunk"
    /\ LET batch == upload_batch(run[r].chunks, run[r].j)
           chunk == batch[run[r].k + 1]
           last == run[r].k + 1 = Len(batch)
       IN /\ kb' = IF db_fails THEN kb ELSE upsert_row(kb, prepare_chunk_for_insert(chunk))
          /\ run' = [run EXCEPT
                       ![r].successful = IF db_fails THEN @ ELSE @ + 1,
                       ![r].failed = IF db_fails THEN @ + 1 ELSE @,
                       ![r].k = IF last THEN 0 ELSE @ + 1,
                       ![r].j = IF last THEN @ + UploadBatchSize ELSE @,
                       ![r].pc = IF last THEN "upload" ELSE "upload_chunk"]
    /\ UNCHANGED outsideIngest

\* upload_chunks_batch returns its statistics and main prints them
UploadReturn(r) ==
    /\ run[r].pc = "upload"
    /\ run[r].j >= Len(run[r].chunks)
    /\ run' = [run EXCEPT
                 ![r].pc = "done",
                 ![r].report = [total |-> Len(run[r].chunks),
                                successful |-> run[r].successful,
                                failed |-> run[r].failed]]
    /\ UNCHANGED <<kb, outsideIngest>>

\* one run, from the embedding step on
IngestInit ==
    /\ kb = <<>>
    /\ \E contents \in SeqsUpTo(ChunkTexts, MaxTexts), b \in EmbedBatchSizes :
          run = [r \in Runs |->
                    IF r = "r1"
                    THEN [NoRun EXCEPT !.pc = "start", !.chunks = MakeChunks(contents, r),
                                       !.batch_size = b]
                    ELSE NoRun]

NextIngest ==
    \E r \in Runs :
        \/ IngestStart(r)
        \/ EmbedCall(r)
        \/ \E ok \in BOOLEAN : EmbedResponse(r, ok)
        \/ EmbedSleep(r)
        \/ EmbedReturn(r)
        \/ \E db_fails \in BOOLEAN : UploadBatch(r, db_fails)
        \/ \E db_fails \in BOOLEAN : UploadChunk(r, db_fails)
        \/ UploadReturn(r)

InitIngest == IngestInit /\ CacheIdle /\ NormIdle /\ SearchIdle /\ BuildIdle /\ ClassIdle /\ ChunkIdle /\ OverlapIdle /\ GenIdle

SpecIngest == InitIngest /\ [][NextIngest]_vars

\* the chunk contents of the parallel uploads (two texts, so that runs collide)
UploadTexts == { <<"a">>, <<"b">> }

\* parallel runs, each at its upload step with its chunks embedded
UploadInit ==
    /\ kb = <<>>
    /\ \E contents \in [Runs -> SeqsUpTo(UploadTexts, MaxUploadChunks)] :
          run = [r \in Runs |->
                    [NoRun EXCEPT
                       !.pc = "upload", !.embedded = TRUE,
                       !.chunks = attach_embeddings(
                                      MakeChunks(contents[r], r),
                                      batch_embeddings(texts_of(MakeChunks(contents[r], r))))]]

NextUpload ==
    \E r \in Runs :
        \/ \E db_fails \in BOOLEAN : UploadBatch(r, db_fails)
        \/ \E db_fails \in BOOLEAN : UploadChunk(r, db_fails)
        \/ UploadReturn(r)

InitUpload == UploadInit /\ CacheIdle /\ NormIdle /\ SearchIdle /\ BuildIdle /\ ClassIdle /\ ChunkIdle /\ OverlapIdle /\ GenIdle

SpecUpload == InitUpload /\ [][NextUpload]_vars

\* ------------------------------------------------------------------------
\* Properties of the ingestion model
\* ------------------------------------------------------------------------

\* the stored records that have a content_hash
RecordsOf(content_hash) == SelectSeq(kb, LAMBDA row : row.content_hash = content_hash)

\* the run has a chunk of this content
Holds(r, content) == \E n \in 1..Len(run[r].chunks) : run[r].chunks[n].content = content

\* C18: hashing the same chunk content always gives the same content_hash, and
\* after any number of ingestion uploads of chunks with identical content, run
\* one after another or interleaved from parallel runs, the knowledge store
\* holds exactly one record for that content_hash: never two, and one as soon
\* as a run that holds the content has finished without a failed upload.
C18_OneRecordPerContent ==
    /\ \A r1 \in Runs, r2 \in Runs :
          \A m \in 1..Len(run[r1].chunks), n \in 1..Len(run[r2].chunks) :
              run[r1].chunks[m].content = run[r2].chunks[n].content
                 => run[r1].chunks[m].content_hash = run[r2].chunks[n].content_hash
    /\ \A n \in 1..Len(kb) : kb[n].content_hash = generate_chunk_hash(kb[n].content)
    /\ \A content \in UploadTexts :
          /\ Len(RecordsOf(generate_chunk_hash(content))) <= 1
          /\ (\E r \in Runs : /\ run[r].pc = "done" /\ run[r].failed = 0
                              /\ Holds(r, content))
                => Len(RecordsOf(generate_chunk_hash(content))) = 1

\* both runs uploaded the same content, one of them twice, after a batch
\* upsert failed, and the store has one record of it
C18_Witness ==
    /\ \A r \in Runs : run[r].pc = "done" /\ run[r].failed = 0 /\ Holds(r, <<"a">>)
    /\ \E r \in Runs : \E m, n \in 1..Len(run[r].chunks) :
          m # n /\ run[r].chunks[m].content = <<"a">> /\ run[r].chunks[n].content = <<"a">>
    /\ Len(RecordsOf(generate_chunk_hash(<<"a">>))) = 1
    /\ Len(kb) = 2

\* ceil(n / b)
CeilDiv(n, b) == (n + b - 1) \div b

\* C19: embed_batch over n texts with batch size b issues ceil(n/b) provider
\* calls strictly one after another (a call starts only after the previous one
\* returned, with the delay only between consecutive batches), and returns
\* exactly n vectors where the i-th vector is the embedding of the i-th input
\* text.
C19_BatchesSequentialOrderPreserved ==
    \A r \in Runs :
        LET me == run[r]
            n == Len(me.chunks)
        IN /\ me.outstanding <= 1
           /\ me.pc = "embed_wait" <=> me.outstanding = 1
           /\ me.pc = "sleep" => (me.calls >= 1 /\ me.i < n)
           /\ me.sleeps <= me.calls
           /\ me.embedded =>
                 /\ me.calls = CeilDiv(n, me.batch_size)
                 /\ me.sleeps = (IF me.calls = 0 THEN 0 ELSE me.calls - 1)
                 /\ Len(me.embeddings) = n
                 /\ \A m \in 1..n :
                       /\ me.embeddings[m]
                             = provider_embedding(replace_newlines(me.chunks[m].content))
                       /\ me.chunks[m].embedding = me.embeddings[m]

\* three different texts were embedded in two batches
C19_Witness ==
    LET me == run["r1"]
    IN /\ me.embedded
       /\ Len(me.chunks) = 3 /\ me.batch_size = 2 /\ me.calls = 2 /\ me.sleeps = 1
       /\ me.chunks[1].content # me.chunks[2].content
       /\ me.chunks[2].content # me.chunks[3].content
       /\ me.chunks[1].content # me.chunks[3].content

\* what a run printed has a count of the items done and of the items failed
ReportsCounts(report) == {"successful", "failed"} \subseteq DOMAIN report

\* C20: when the embedding provider fails on any batch during ingestion, the
\* run aborts without uploading any chunk to the store, and the partial outcome
\* is surfaced as a count of processed versus failed items rather than being
\* dropped.
C20_EmbeddingFailureAbortsWithCounts ==
    \A r \in Runs :
        (run[r].pc = "aborted" /\ ~ run[r].embedded) =>
            /\ kb = <<>>
            /\ run[r].successful = 0
            /\ ReportsCounts(run[r].report)

\* ------------------------------------------------------------------------
\* The overlap excerpt: _get_overlap on a text given token by token.  A token
\* is a word or a sentence punctuation mark; the tokenizer counts one token
\* for each, and white space belongs to the word it precedes.
\* ------------------------------------------------------------------------

MaxOverlapText == 4     \* tokens of the text handed to _get_overlap

Punctuation == "."
OverlapWords == {"x", "y"}

\* the values of the overlap_tokens setting the model draws from
OverlapSettings == {0, 1, 2}

OverlapTexts ==
    UNION {[1..n -> OverlapWords \cup {Punctuation}] : n \in 1..MaxOverlapText}

\* re.split(r"[.!?]+", text): the pieces between maximal runs of punctuation,
\* with an empty piece before a leading run and after a trailing run
RECURSIVE re_split(_, _, _)
re_split(text, i, piece) ==
    IF i > Len(text) THEN <<piece>>
    ELSE IF text[i] # Punctuation THEN re_split(text, i + 1, Append(piece, text[i]))
    ELSE IF i > 1 /\ text[i - 1] = Punctuation THEN re_split(text, i + 1, piece)
    ELSE <<piece>> \o re_split(text, i + 1, <<>>)

\* tokens[-n:] of Python: the last n items, and all of them when n is 0 or
\* n is not less than the length
last_slice(tokens, n) ==
    IF n = 0 \/ n >= Len(tokens) THEN tokens
    ELSE SubSeq(tokens, Len(tokens) - n + 1, Len(tokens))

\* a slice that takes the last n items for every n, none when n is 0
last_slice_exact(tokens, n) ==
    IF n >= Len(tokens) THEN tokens
    ELSE SubSeq(tokens, Len(tokens) - n + 1, Len(tokens))

\* _get_overlap(text) with self.overlap_tokens = n
get_overlap_excerpt(text, n) ==
    LET sentences == re_split(text, 1, <<>>)
        overlap == sentences[Len(sentences) - 1]
    IN IF Len(sentences) > 1 /\ Len(overlap) <= n
       THEN overlap
       ELSE last_slice(text, n)

OverlapInit ==
    \E t \in OverlapTexts, n \in OverlapSettings :
        ov = [pc |-> "called", text |-> t, overlap_tokens |-> n, excerpt |-> <<>>]

\* create_chunks_from_section: overlap = self._get_overlap(current_chunk)
GetOverlap ==
    /\ ov.pc = "called"
    /\ ov' = [ov EXCEPT !.pc = "returned",
                        !.excerpt = get_overlap_excerpt(ov.text, ov.overlap_tokens)]
    /\ UNCHANGED outsideOverlap

NextOverlap == GetOverlap

InitOverlap == OverlapInit /\ CacheIdle /\ NormIdle /\ SearchIdle /\ BuildIdle /\ ClassIdle /\ ChunkIdle /\ IngestIdle /\ GenIdle

SpecOverlap == InitOverlap /\ [][NextOverlap]_vars

\* the words after the last punctuation run that has words after it, or
\* between the last two runs when the text ends with punctuation
LastSentence(text) ==
    LET sentences == re_split(text, 1, <<>>)
        filled == {i \in 1..Len(sentences) : sentences[i] # <<>>}
    IN IF filled = {} THEN <<>>
       ELSE sentences[CHOOSE i \in filled : \A j \in filled : j <= i]

\* C23: the excerpt is the last sentence of the text when that sentence has
\* at most overlap_tokens tokens and the last overlap_tokens tokens of the
\* text otherwise, and has at most overlap_tokens tokens in both cases, also
\* when overlap_tokens is 0 and when the text does not end with punctuation.
C23_OverlapExcerpt ==
    ov.pc = "returned" =>
        /\ Len(ov.excerpt) <= ov.overlap_tokens
        /\ ov.excerpt = IF Len(LastSentence(ov.text)) <= ov.overlap_tokens
                        THEN LastSentence(ov.text)
                        ELSE last_slice_exact(ov.text, ov.overlap_tokens)

\* the batch upsert of run r is rejected in this transition
BatchRejected(r) ==
    /\ run[r].pc = "upload" /\ run[r].j < Len(run[r].chunks)
    /\ run'[r] # run[r]
    /\ run'[r].successful = run[r].successful

\* C26: when the store rejects a batch upsert of upload_chunks_batch, the
\* batch is given up and all its chunks are counted as failed, and the
\* counts of every return satisfy successful + failed = total.
C26_RejectedBatchCountedFailed ==
    [][ \A r \in Runs :
          /\ BatchRejected(r) =>
                /\ run'[r].failed = run[r].failed
                                       + Len(upload_batch(run[r].chunks, run[r].j))
                /\ run'[r].j = run[r].j + UploadBatchSize
                /\ run'[r].pc = "upload"
                /\ kb' = kb
          /\ (run[r].pc # "done" /\ run'[r].pc = "done") =>
                run'[r].report.successful + run'[r].report.failed
                    = run'[r].report.total ]_vars

\* the counts of every return of upload_chunks_batch add up
UploadCountsAddUp ==
    \A r \in Runs : run[r].pc = "done" =>
        run[r].report.successful + run[r].report.failed = run[r].report.total

\* ------------------------------------------------------------------------
\* The generation step of chat: the Claude retry loop and the OpenAI fallback
\* ------------------------------------------------------------------------

max_retries == 2
initial_retry_delay == 1

Tiers == {"simple", "medium", "complex"}

\* str(e) of the API errors the Claude client raises in the model
ApiErrorMessages ==
    { <<"O", "v", "e", "r", "l", "o", "a", "d", "e", "d">>,
      <<"o", "v", "e", "r", "l", "o", "a", "d">>,
      <<"t", "i", "m", "e", "o", "u", "t">>,
      <<"r", "a", "t", "e", " ", "l", "i", "m", "i", "t">> }

\* what one call of claude_client.messages.create does: it returns, raises an
\* APIError with a message, or raises another exception
ClaudeOutcomes ==
    { [kind |-> "ok", message |-> <<>>], [kind |-> "exception", message |-> <<>>] }
    \cup { [kind |-> "api_error", message |-> m] : m \in ApiErrorMessages }

\* a retry condition without `attempt < max_retries`
should_retry_any_attempt(message, attempt) ==
    contains(lower(message), <<"o", "v", "e", "r", "l", "o", "a", "d", "e", "d">>)

\* `"overloaded" in str(e).lower() and attempt < max_retries`
should_retry(message, attempt) ==
    /\ contains(lower(message), <<"o", "v", "e", "r", "l", "o", "a", "d", "e", "d">>)
    /\ attempt < max_retries

\* chat reaches the generation step, with or without a Claude client
GenStart(configured, complexity) ==
    /\ gen.pc = "idle"
    /\ gen' = [NoGeneration EXCEPT !.pc = IF configured THEN "claude_call" ELSE "openai_only",
                                   !.configured = configured,
                                   !.complexity = complexity,
                                   !.retry_delay = initial_retry_delay]
    /\ UNCHANGED outsideGen

\* one turn of `for attempt in range(max_retries + 1)`: the Claude call and
\* what its outcome leads to
ClaudeCall(outcome) ==
    /\ gen.pc = "claude_call"
    /\ gen' = [gen EXCEPT
                 !.claude = Append(@, outcome),
                 !.pc = IF outcome.kind = "api_error"
                        THEN (IF should_retry(outcome.message, gen.attempt)
                              THEN "sleep" ELSE "openai_fallback")
                        ELSE "ended",
                 !.response_text = IF outcome.kind = "ok"
                                   THEN <<"answer", "claude">> ELSE @,
                 !.model_used = IF outcome.kind = "ok"
                                THEN <<"claude", gen.complexity = "complex">> ELSE @,
                 !.raised = (outcome.kind = "exception")]
    /\ UNCHANGED outsideGen

\* await asyncio.sleep(retry_delay); retry_delay *= 2; the next turn of the
\* loop, or the end of the loop when the range is used up
RetrySleep ==
    /\ gen.pc = "sleep"
    /\ gen' = [gen EXCEPT
                 !.slept = Append(@, gen.retry_delay),
                 !.retry_delay = @ * 2,
                 !.attempt = @ + 1,
                 !.pc = IF gen.attempt + 1 <= max_retries THEN "claude_call" ELSE "ended"]
    /\ UNCHANGED outsideGen

\* the OpenAI call of the except branch; its exception leaves chat's try
OpenAIFallback(ok) ==
    /\ gen.pc = "openai_fallback"
    /\ gen' = [gen EXCEPT
                 !.openai_calls = @ + 1,
                 !.pc = "ended",
                 !.response_text = IF ok THEN <<"answer", "openai">> ELSE @,
                 !.model_used = IF ok THEN <<"openai", gen.complexity = "complex">> ELSE @,
                 !.raised = ~ok]
    /\ UNCHANGED outsideGen

\* the OpenAI call when no Claude client is configured
OpenAIOnly(ok) ==
    /\ gen.pc = "openai_only"
    /\ gen' = [gen EXCEPT
                 !.openai_calls = @ + 1,
                 !.pc = "ended",
                 !.response_text = IF ok THEN <<"answer", "openai">> ELSE @,
                 !.model_used = IF ok THEN <<"openai", gen.complexity = "complex">> ELSE @,
                 !.raised = ~ok]
    /\ UNCHANGED outsideGen

\* chat goes on with response_text, or its except clause answers HTTP 500
GenEnd ==
    /\ gen.pc = "ended"
    /\ gen' = NoGeneration
    /\ UNCHANGED outsideGen

NextGen ==
    \/ \E configured \in BOOLEAN, complexity \in Tiers : GenStart(configured, complexity)
    \/ \E outcome \in ClaudeOutcomes : ClaudeCall(outcome)
    \/ RetrySleep
    \/ \E ok \in BOOLEAN : OpenAIFallback(ok)
    \/ \E ok \in BOOLEAN : OpenAIOnly(ok)
    \/ GenEnd

InitGen == GenIdle /\ CacheIdle /\ NormIdle /\ SearchIdle /\ BuildIdle /\ ClassIdle /\ ChunkIdle /\ IngestIdle /\ OverlapIdle

SpecGen == InitGen /\ [][NextGen]_vars

\* the error message mentions overload
MentionsOverload(message) ==
    contains(lower(message), <<"o", "v", "e", "r", "l", "o", "a", "d">>)

\* the delays of the retries, in order
RetryDelays == <<1, 2>>

\* C30: with the Claude client configured the Claude call is made at most 3
\* times; every retry follows an API error that mentions overload on an
\* attempt before the third, after a delay of 1s for the first retry and 2s
\* for the second; an API error that is not retried (any other API error, or
\* an overload error on the third attempt) leads to exactly one OpenAI call
\* and no OpenAI call is made otherwise; and when the loop has ended either
\* a response text is set or an error was raised, never neither.
C30_ClaudeRetryLoop ==
    gen.configured =>
        LET n == Len(gen.claude)
            retries == Len(gen.slept)
            last == gen.claude[n]
        IN /\ n <= 3
           /\ retries <= Len(RetryDelays)
           /\ gen.slept = SubSeq(RetryDelays, 1, retries)
           /\ retries <= n /\ n <= retries + 1
           /\ \A i \in 1..retries :
                 /\ gen.claude[i].kind = "api_error"
                 /\ MentionsOverload(gen.claude[i].message)
                 /\ i < 3
           /\ gen.openai_calls <= 1
           /\ gen.pc = "ended" =>
                 /\ n >= 1
                 /\ (/\ last.kind = "api_error"
                     /\ (~MentionsOverload(last.message) \/ n = 3))
                       => gen.openai_calls = 1
                 /\ gen.openai_calls = 1 => last.kind = "api_error"
                 /\ (gen.response_text # <<>>) # gen.raised

\* the third Claude call failed with an overload error after retries of 1s
\* and 2s, and the single OpenAI call set the response
C30_Witness ==
    /\ gen.configured /\ gen.pc = "ended"
    /\ Len(gen.claude) = 3
    /\ gen.claude[3].kind = "api_error" /\ MentionsOverload(gen.claude[3].message)
    /\ gen.slept = <<1, 2>>
    /\ gen.openai_calls = 1
    /\ gen.response_text = <<"answer", "openai">>

====
